---------------------------- MODULE Spec2Model ----------------------------
(***************************************************************************)
(* Verification model of the variability-model pipeline:                   *)
(*   - final_logic_analyzer.py : KR analysis (analyze_kr_for_defects) and  *)
(*     the clean/injected comparison report (build_final_report);          *)
(*   - batch_uvl_to_kr.py      : the UVL parser and the KR fact emitter;   *)
(*   - uvl_builder.py          : the builder of the hierarchical text.     *)
(* Names are atomic strings.  A literal of the relational format is the    *)
(* token sequence of its text: <<x>> for x, <<"not(", x, ")">> for not(x). *)
(***************************************************************************)
EXTENDS Integers, Sequences, FiniteSets, TLC

VARIABLES
    \* --- analyzer run on one KR file
    kr, analysis, apc,
    \* --- build_final_report over the paired KR files
    pairs, clean_analysis, inj_analysis, run_rows, verify_rows, summary, hpc, hidx,
    \* --- parse_uvl reading a features section (its locals)
    section, stack, pending_group_kind, features, groups, nlines, ppc,
    \* --- build_uvl_from_structure and transform_one on its output
    input_sheet, branch_profile, scope_rules, uvl_file, report, kr_file, bpc,
    \* --- the batch runners of the builder, sheet after sheet
    batch_sheets, batch_idx, batch_out, batch_pc,
    \* --- run_batch and main of the transformer
    uvl_files, file_idx, summary_rows, out_dir, ok, fail, csv_rows, exit_status, tpc,
    \* --- the injector script, run twice over the same source directory
    source_dir, inj_idx, output_dir, tracking_list, status_log, oracle_key, first_run, ipc,
    \* --- derive_model_key on the file names of one model
    stem, model_key, key_pairs, kpc,
    \* --- the builder run again in a new Python process
    hash_seeds, rebuilt_file,
    \* --- the lines parse_uvl has read so far
    lines_read,
    \* --- a built model injected, transformed and compared with the clean one
    injected_uvl, injected_targets, injected_kr, end_row, epc

avars == <<kr, analysis, apc>>
hvars == <<pairs, clean_analysis, inj_analysis, run_rows, verify_rows, summary, hpc, hidx>>
pvars == <<section, stack, pending_group_kind, features, groups, nlines, ppc>>
bvars == <<input_sheet, branch_profile, scope_rules, uvl_file, report, kr_file, bpc>>
xvars == <<batch_sheets, batch_idx, batch_out, batch_pc>>
tvars == <<uvl_files, file_idx, summary_rows, out_dir, ok, fail, csv_rows, exit_status, tpc>>
ivars == <<source_dir, inj_idx, output_dir, tracking_list, status_log, oracle_key, first_run, ipc>>
kvars == <<stem, model_key, key_pairs, kpc>>
rvars == <<hash_seeds, rebuilt_file>>
fvars == <<lines_read>>
evars == <<injected_uvl, injected_targets, injected_kr, end_row, epc>>
nvars == <<rvars, fvars, evars>>
lvars == <<xvars, tvars, ivars, kvars, nvars>>
vars == <<avars, hvars, pvars, bvars, lvars>>

-----------------------------------------------------------------------------
(* final_logic_analyzer.py : KR model and analysis                          *)

ROOT_FEATURE == "InternalAuditSystem"

GROUP_KINDS == {"mandatory", "optional", "alternative", "or"}

Pos(n) == <<n>>
Neg(n) == <<"not(", n, ")">>

\* parse_literal: "not(x)" -> (False, x); anything else -> (True, text)
parse_literal(expr) ==
    IF Len(expr) >= 2 /\ expr[1] = "not(" /\ expr[Len(expr)] = ")"
    THEN [pos |-> FALSE, feat |-> expr[2]]
    ELSE [pos |-> TRUE, feat |-> expr[1]]

\* KRModel(features, groups, imps): groups are (parent, gtype, children),
\* one per (parent, gtype) as emit_kr_facts writes them; imps are raw (lhs, rhs).
KRModel(fs, gs, imps) ==
    [features |-> fs, groups |-> gs, imps |-> imps]

\* one sweep of the while-loop body of compute_structural_always
StructuralSweep(always, gs) ==
    always \cup UNION { g.children : g \in
        { h \in gs : /\ h.parent \in always
                         /\ \/ h.gtype = "mandatory"
                            \/ /\ h.gtype \in {"alternative", "or"}
                               /\ Cardinality(h.children) = 1 } }

RECURSIVE StructuralLoop(_, _)
StructuralLoop(always, gs) ==
    LET nxt == StructuralSweep(always, gs)
    IN  IF nxt = always THEN always ELSE StructuralLoop(nxt, gs)

compute_structural_always(root, gs) == StructuralLoop({root}, gs)

\* FiringImps without the test of the left side's polarity
FiringImps_AnyPolarity(always, imps) ==
    { i \in imps : parse_literal(i.lhs).feat \in always }

\* the implications whose left side is a positive literal already in always
FiringImps(always, imps) ==
    { i \in imps : /\ parse_literal(i.lhs).pos
                   /\ parse_literal(i.lhs).feat \in always }

\* one sweep of the forward-chaining loop of analyze_kr_for_defects
ChainSweep(st, imps) ==
    LET fire == FiringImps(st.always, imps)
    IN  [always    |-> st.always \cup
                       { parse_literal(i.rhs).feat : i \in { j \in fire : parse_literal(j.rhs).pos } },
         forbidden |-> st.forbidden \cup
                       { parse_literal(i.rhs).feat : i \in { j \in fire : ~parse_literal(j.rhs).pos } }]

RECURSIVE ChainLoop(_, _)
ChainLoop(st, imps) ==
    LET nxt == ChainSweep(st, imps)
    IN  IF nxt = st THEN st ELSE ChainLoop(nxt, imps)

\* children of the optional groups of the root
RootOptional(m, root) ==
    UNION { g.children : g \in { h \in m.groups : h.parent = root /\ h.gtype = "optional" } }

AuditTypeOptionsCount(m) ==
    LET gs == { g \in m.groups : g.parent = "AuditType" /\ g.gtype = "alternative" }
    IN  IF gs = {} THEN 0 ELSE Cardinality((CHOOSE g \in gs : TRUE).children)

DefectsRaw(dead, fo) == { <<"DF", d>> : d \in dead } \cup { <<"FO", f>> : f \in fo }

analyze_kr_for_defects(m, root) ==
    LET always0 == IF root \in m.features
                   THEN compute_structural_always(root, m.groups) ELSE {}
        st      == ChainLoop([always |-> always0, forbidden |-> {}], m.imps)
        dead    == st.forbidden
        fo      == IF root \in m.features
                   THEN RootOptional(m, root) \cap st.always ELSE {}
        raw     == DefectsRaw(dead, fo)
        cnt     == AuditTypeOptionsCount(m)
        art     == (cnt = 1) /\ ("AuditPlan" \in fo)
    IN  [nf |-> Cardinality(m.features),
         constraints |-> Cardinality(m.imps),
         audit_type_options_count |-> cnt,
         dead_features |-> dead,
         false_optional |-> fo,
         defects_raw |-> raw,
         defects_filtered |-> IF art THEN raw \ {<<"FO", "AuditPlan">>} ELSE raw,
         is_visit_type_artifact |-> art]

-----------------------------------------------------------------------------
(* Reference semantics of a feature model (spec section 4.3 and glossary)   *)

LitHolds(lit, S) ==
    LET p == parse_literal(lit) IN IF p.pos THEN p.feat \in S ELSE p.feat \notin S

GroupHolds(g, S) ==
    /\ \A c \in g.children : c \in S => g.parent \in S
    /\ g.gtype = "mandatory"   => (g.parent \in S => g.children \subseteq S)
    /\ g.gtype = "alternative" => (g.parent \in S => Cardinality(g.children \cap S) = 1)
    /\ g.gtype = "or"          => (g.parent \in S => g.children \cap S # {})

ValidConfig(m, root, S) ==
    /\ root \in S
    /\ \A g \in m.groups : GroupHolds(g, S)
    /\ \A i \in m.imps : LitHolds(i.lhs, S) => LitHolds(i.rhs, S)

ValidConfigs(m, root) == { S \in SUBSET m.features : ValidConfig(m, root, S) }

IsVoid(m, root) == ValidConfigs(m, root) = {}
IsDead(m, root, f) == \A S \in ValidConfigs(m, root) : f \notin S
IsCore(m, root, f) == \A S \in ValidConfigs(m, root) : f \in S
OptionalChildren(m) == UNION { g.children : g \in { h \in m.groups : h.gtype = "optional" } }

-----------------------------------------------------------------------------
(* final_logic_analyzer.py : build_final_report (clean vs injected)         *)

imp_set(m) == m.imps

\* infer_targets_from_new_imps: the features of the negated right-hand sides
infer_targets_from_new_imps(new_imps) ==
    { parse_literal(i.rhs).feat : i \in { j \in new_imps : ~parse_literal(j.rhs).pos } }

\* an absent file ("" in the pair row) and an absent dictionary entry (None)
NoFile == [missing |-> TRUE]

\* VerifyStatus without its INVALID_TARGET branch
VerifyStatus_NoInvalid(injection_present, invalid_targets, detected_any) ==
    IF ~injection_present THEN "MISSING_INJECTION"
    ELSE IF injection_present /\ ~detected_any THEN "DETECTOR_MISS"
    ELSE "OK"

\* the status chain of the verification loop
VerifyStatus(injection_present, invalid_targets, detected_any) ==
    IF ~injection_present THEN "MISSING_INJECTION"
    ELSE IF invalid_targets # {} THEN "INVALID_TARGET"
    ELSE IF injection_present /\ ~detected_any THEN "DETECTOR_MISS"
    ELSE "OK"

\* the body of the verification loop for one pair row
VerifyRow(row, ana_i) ==
    LET both     == row.CleanFile # NoFile /\ row.InjectedFile # NoFile
        s_c      == IF both THEN imp_set(row.CleanFile) ELSE {}
        s_i      == IF both THEN imp_set(row.InjectedFile) ELSE {}
        new_imps == s_i \ s_c
        removed  == s_c \ s_i
        present  == new_imps # {}
        targets  == infer_targets_from_new_imps(new_imps)
        invalid  == IF both THEN { t \in targets : t \notin row.InjectedFile.features }
                    ELSE {}
        raw      == IF ana_i = NoFile THEN {} ELSE ana_i.defects_raw
        filtered == IF ana_i = NoFile THEN {} ELSE ana_i.defects_filtered
    IN  [ModelKey |-> row.ModelKey,
         InjectionPresent |-> present,
         NewImp |-> new_imps,
         RemovedImp |-> removed,
         InferredTargets |-> targets,
         InvalidTargets |-> invalid,
         DetectedDefects_RAW |-> raw,
         DetectedDefects_FILTERED |-> filtered,
         Status |-> VerifyStatus(present, invalid, filtered # {})]

CountStatus(rows, st) == Cardinality({ i \in 1..Len(rows) : rows[i].Status = st })

Get(d, k) == IF k \in DOMAIN d THEN d[k] ELSE NoFile

-----------------------------------------------------------------------------
(* batch_uvl_to_kr.py : parse_uvl                                           *)
(* A line of the hierarchical text is [indent, toks]: its count of leading  *)
(* spaces and the blank-separated tokens of its stripped text.              *)

Line(indent, toks) == [indent |-> indent, toks |-> toks]

NoParent == "<None>"

FeatureNode(is_abs, parent) == [is_abstract |-> is_abs, parent |-> parent]
Group(parent, kind, children) == [parent |-> parent, kind |-> kind, children |-> children]

ParseStart ==
    [section |-> "none", stack |-> <<>>, pending_group_kind |-> <<>>,
     features |-> <<>>, groups |-> {}, constraints |-> <<>>,
     namespace |-> "", failed |-> FALSE]

\* current_parent: the closest stack entry (from the top) with a smaller indent
RECURSIVE current_parent_from(_, _, _)
current_parent_from(stk, i, indent) ==
    IF i = 0 THEN NoParent
    ELSE IF stk[i].indent < indent THEN stk[i].name
    ELSE current_parent_from(stk, i - 1, indent)

current_parent(stk, indent) == current_parent_from(stk, Len(stk), indent)

\* while stack and stack[-1][0] >= indent: stack.pop()
RECURSIVE pop_to_depth(_, _)
pop_to_depth(stk, indent) ==
    IF stk # <<>> /\ stk[Len(stk)].indent >= indent
    THEN pop_to_depth(SubSeq(stk, 1, Len(stk) - 1), indent)
    ELSE stk

Max(S) == CHOOSE x \in S : \A y \in S : y <= x

\* nearest_pending_group_indent: the largest keyword indent below the child's
HasPending(pending, child_indent) == \E gi \in DOMAIN pending : gi < child_indent
nearest_pending_group_indent(pending, child_indent) ==
    Max({ gi \in DOMAIN pending : gi < child_indent })

\* add_child_to_group: append to the group of (parent, kind), or open it
add_child_to_group(gs, parent, kind, child) ==
    IF \E g \in gs : g.parent = parent /\ g.kind = kind
    THEN { IF g.parent = parent /\ g.kind = kind
           THEN Group(parent, kind, g.children \cup {child}) ELSE g : g \in gs }
    ELSE gs \cup { Group(parent, kind, {child}) }

\* the tokens that are not identifiers ([A-Za-z_][A-Za-z0-9_]*)
OperatorTokens == {"=>", "<=>", "(", ")", "|", "!", "not(", "{abstract}"}
IsName(t) == t \notin OperatorTokens

\* _parse_feature_decl: name, or name {abstract}
IsFeatureDecl(toks) ==
    \/ Len(toks) = 1 /\ IsName(toks[1])
    \/ Len(toks) = 2 /\ IsName(toks[1]) /\ toks[2] = "{abstract}"

SetPending(pending, indent, kind) ==
    [gi \in DOMAIN pending \cup {indent} |-> IF gi = indent THEN kind ELSE pending[gi]]

\* the feature-declaration branch of the loop body
ReadFeatureLine(st, indent, feat_name, is_abs) ==
    LET parent == current_parent(st.stack, indent)
        stack1 == Append(pop_to_depth(st.stack, indent), [indent |-> indent, name |-> feat_name])
        feats1 ==
            IF feat_name \notin DOMAIN st.features
            THEN st.features @@ (feat_name :> FeatureNode(is_abs, parent))
            ELSE [st.features EXCEPT ![feat_name] =
                    FeatureNode(@.is_abstract \/ is_abs,
                                IF parent # NoParent THEN parent ELSE @.parent)]
        groups1 ==
            IF parent # NoParent /\ HasPending(st.pending_group_kind, indent)
            THEN add_child_to_group(st.groups, parent,
                     st.pending_group_kind[nearest_pending_group_indent(st.pending_group_kind, indent)],
                     feat_name)
            ELSE st.groups
    IN  [st EXCEPT !.stack = stack1, !.features = feats1, !.groups = groups1]

\* _normalize_constraint: "!" before a name becomes not(name)
RECURSIVE normalize_constraint(_)
normalize_constraint(toks) ==
    IF toks = <<>> THEN <<>>
    ELSE IF toks[1] = "!" /\ Len(toks) >= 2 /\ IsName(toks[2])
         THEN <<"not(", toks[2], ")">> \o normalize_constraint(SubSeq(toks, 3, Len(toks)))
         ELSE <<toks[1]>> \o normalize_constraint(Tail(toks))

\* the body of the loop over the lines of the file
ParseLine(st, line) ==
    IF st.failed \/ line.toks = <<>> THEN st
    ELSE IF line.toks[1] = "namespace" /\ Len(line.toks) >= 2
         THEN [st EXCEPT !.namespace = line.toks[2]]
    ELSE IF line.toks = <<"features">> THEN [st EXCEPT !.section = "features"]
    ELSE IF line.toks = <<"constraints">> THEN [st EXCEPT !.section = "constraints"]
    ELSE IF st.section = "constraints"
         THEN [st EXCEPT !.constraints = Append(@, normalize_constraint(line.toks))]
    ELSE IF st.section # "features" THEN st
    ELSE IF Len(line.toks) = 1 /\ line.toks[1] \in GROUP_KINDS
         THEN [st EXCEPT !.pending_group_kind = SetPending(@, line.indent, line.toks[1])]
    ELSE IF IsFeatureDecl(line.toks)
         THEN ReadFeatureLine(st, line.indent, line.toks[1], Len(line.toks) = 2)
    ELSE [st EXCEPT !.failed = TRUE]

RECURSIVE ParseLines(_, _, _)
ParseLines(st, lines, i) ==
    IF i > Len(lines) THEN st ELSE ParseLines(ParseLine(st, lines[i]), lines, i + 1)

\* parse_uvl on the lines of a file (children are kept as sets: the final
\* sorted(set(children)) of each group)
parse_uvl(lines) == ParseLines(ParseStart, lines, 1)

-----------------------------------------------------------------------------
(* batch_uvl_to_kr.py : emit_kr_facts                                       *)

\* the literal (not(Name) or Name) at the front of a token sequence, if any
LitLen(toks) ==
    IF Len(toks) >= 3 /\ toks[1] = "not(" /\ IsName(toks[2]) /\ toks[3] = ")" THEN 3
    ELSE IF Len(toks) >= 1 /\ IsName(toks[1]) THEN 1
    ELSE 0

\* the first regular expression of emit_kr_facts: literal => literal
MatchesImp(c) ==
    LET n == LitLen(c) IN
    /\ n > 0
    /\ Len(c) > n + 1
    /\ c[n + 1] = "=>"
    /\ LitLen(SubSeq(c, n + 2, Len(c))) = Len(c) - n - 1

ImpFact(c) ==
    LET n == LitLen(c) IN [lhs |-> SubSeq(c, 1, n), rhs |-> SubSeq(c, n + 2, Len(c))]

\* the second regular expression: literal <=> ( ... )
MatchesEquivOr(c) ==
    LET n == LitLen(c) IN
    /\ n > 0
    /\ Len(c) >= n + 4
    /\ c[n + 1] = "<=>"
    /\ c[n + 2] = "("
    /\ c[Len(c)] = ")"

EquivOrFacts(c) ==
    LET n    == LitLen(c)
        body == SubSeq(c, n + 3, Len(c) - 1)
    IN  SelectSeq([i \in 1..Len(body) |-> <<SubSeq(c, 1, n), body[i]>>],
                  LAMBDA e : e[2] # "|")

RECURSIVE Concat(_)
Concat(ss) == IF ss = <<>> THEN <<>> ELSE Head(ss) \o Concat(Tail(ss))

\* emit_kr_facts: the facts of the relational text, by kind
emit_kr_facts(fs, gs, constraints, namespace) ==
    [namespace |-> namespace,
     feature   |-> DOMAIN fs,
     abstract  |-> { f \in DOMAIN fs : fs[f].is_abstract },
     p         |-> { <<f, fs[f].parent>> : f \in { g \in DOMAIN fs : fs[g].parent # NoParent } },
     group     |-> { [parent |-> g.parent, gtype |-> g.kind, children |-> g.children] : g \in gs },
     imp       |-> Concat([i \in 1..Len(constraints) |->
                      IF MatchesImp(constraints[i]) THEN <<ImpFact(constraints[i])>> ELSE <<>>]),
     equiv_or  |-> Concat([i \in 1..Len(constraints) |->
                      IF ~MatchesImp(constraints[i]) /\ MatchesEquivOr(constraints[i])
                      THEN EquivOrFacts(constraints[i]) ELSE <<>>]),
     constraint_raw |-> SelectSeq(constraints,
                      LAMBDA c : ~MatchesImp(c) /\ ~MatchesEquivOr(c))]

\* transform_one: parse the file and emit its facts (an exception of the
\* parser leaves no output)
transform_one(lines) ==
    LET st == parse_uvl(lines)
    IN  IF st.failed THEN NoFile
        ELSE emit_kr_facts(st.features, st.groups, st.constraints, st.namespace)

-----------------------------------------------------------------------------
(* uvl_builder.py : build_uvl_from_structure                                *)

NA == "<NA>"

Row(cat, ikey, ifeat, ans, branch, atype, aplan) ==
    [CATEGORY_CODE |-> cat, ITEM_KEY |-> ikey, ITEM_FEATURE_NAME |-> ifeat,
     ANSWER_FEATURE_NAME |-> ans, BRANCH_FEATURE_CODE |-> branch,
     AUDIT_TYPE_CODE |-> atype, AUDIT_PLAN_CODE |-> aplan]

\* the names of the input data, in the order of Python's sorted()
NameOrder == << "b1", "b2", "b3", "c1", "c2", "f1", "f2", "k1", "k2",
                "pl1", "planned", "re_evaluate", "y1", "y2" >>

Range(s) == { s[i] : i \in 1..Len(s) }

\* the order in which a Python set of names is iterated: it depends on the
\* hash seed of the running process (the last of hash_seeds)
set_iteration(values) ==
    LET up == SelectSeq(NameOrder, LAMBDA n : n \in values)
    IN  IF hash_seeds # <<>> /\ hash_seeds[Len(hash_seeds)] = 1
        THEN [i \in 1..Len(up) |-> up[Len(up) + 1 - i]]
        ELSE up

\* _safe_sorted_unique without sorted(): the set as it is iterated
safe_sorted_unique_Unsorted(values) == set_iteration(values \ {NA})

\* _safe_sorted_unique: the distinct non-missing values of a column, sorted
safe_sorted_unique(values) == SelectSeq(NameOrder, LAMBDA n : n \in values /\ n # NA)

Column(rows, c) == { rows[i][c] : i \in 1..Len(rows) }

\* drop_duplicates(subset=..., keep="first") on the four content columns
ContentKey(r) == <<r.CATEGORY_CODE, r.ITEM_KEY, r.ITEM_FEATURE_NAME, r.ANSWER_FEATURE_NAME>>

ItemKey(r) == <<r.ITEM_KEY, r.ITEM_FEATURE_NAME>>

\* keys[i] is the value of the subset columns in rows[i]
RECURSIVE KeepFirstFrom(_, _, _)
KeepFirstFrom(rows, keys, i) ==
    IF i > Len(rows) THEN <<>>
    ELSE (IF \E j \in 1..(i - 1) : keys[j] = keys[i] THEN <<>> ELSE <<rows[i]>>)
         \o KeepFirstFrom(rows, keys, i + 1)

\* drop_duplicates that drops nothing
drop_duplicates_KeepAll(rows, keys) == rows

drop_duplicates(rows, keys) == KeepFirstFrom(rows, keys, 1)

drop_duplicates_content(rows) ==
    drop_duplicates(rows, [i \in 1..Len(rows) |-> ContentKey(rows[i])])
drop_duplicates_items(rows) ==
    drop_duplicates(rows, [i \in 1..Len(rows) |-> ItemKey(rows[i])])

\* _detect_fatal_mapping_conflicts without the ITEM_FEATURE_NAME -> ITEM_KEY test
detect_fatal_mapping_conflicts_OneWay(rows) ==
    LET core == SelectSeq(rows, LAMBDA r : r.ITEM_KEY # NA /\ r.ITEM_FEATURE_NAME # NA)
    IN  \E k \in Column(core, "ITEM_KEY") :
           Cardinality({ core[i].ITEM_FEATURE_NAME :
                           i \in { j \in 1..Len(core) : core[j].ITEM_KEY = k } }) > 1

\* _detect_fatal_mapping_conflicts: TRUE when it raises
detect_fatal_mapping_conflicts(rows) ==
    LET core == SelectSeq(rows, LAMBDA r : r.ITEM_KEY # NA /\ r.ITEM_FEATURE_NAME # NA)
        bad1 == { k \in Column(core, "ITEM_KEY") :
                    Cardinality({ core[i].ITEM_FEATURE_NAME :
                                    i \in { j \in 1..Len(core) : core[j].ITEM_KEY = k } }) > 1 }
        bad2 == { f \in Column(core, "ITEM_FEATURE_NAME") :
                    Cardinality({ core[i].ITEM_KEY :
                                    i \in { j \in 1..Len(core) : core[j].ITEM_FEATURE_NAME = f } }) > 1 }
    IN  core # <<>> /\ (bad1 # {} \/ bad2 # {})

\* _indent and emit_feature
emit_feature(name, level, abstract) ==
    Line(4 * level, IF abstract THEN <<name, "{abstract}">> ELSE <<name>>)
emit_keyword(level, kind) == Line(4 * level, <<kind>>)
emit_constraint(toks) == Line(4, toks)

\* _is_constraint_valid: every identifier of the expression is a known feature
ConstraintBlacklist == {"and", "or", "not", "true", "false", "implies"}
is_constraint_valid(toks, valid_features) ==
    \A i \in 1..Len(toks) :
        (IsName(toks[i]) /\ toks[i] \notin ConstraintBlacklist) => toks[i] \in valid_features

branch_cap_flags == <<"iso_active", "micro_active", "path_active">>
FlagColumns == <<"ISO_ACTIVE", "MICRO_ACTIVE", "PATH_ACTIVE">>
CONTAINER_FEATURES == {"AuditPlan", "RelatedVisit"}

\* _branches_with_flag: the branch codes whose profile row has the flag at 1
branches_with_flag(profile, flag_col) ==
    safe_sorted_unique({ r.BRANCH_FEATURE_CODE : r \in { q \in profile : q[flag_col] = 1 } })

\* the block of one item of a category: its lines, its skip report, its names
ItemBlock(cat, cat_rows, item, require_answers) ==
    LET ikey    == item.ITEM_KEY
        rel     == SelectSeq(cat_rows, LAMBDA r : r.ITEM_KEY = ikey)
        choices == safe_sorted_unique(Column(rel, "ANSWER_FEATURE_NAME"))
        node    == "Answers__" \o ikey
    IN  IF choices = <<>> /\ require_answers
        THEN [lines |-> <<>>, names |-> {},
              report |-> { <<"SKIP_ITEM_NO_VALID_ANSWERS", cat, ikey>> }]
        ELSE [lines |->
                 << emit_feature(item.ITEM_FEATURE_NAME, 7, TRUE), emit_keyword(8, "mandatory") >>
                 \o (IF choices = <<>> THEN <<>>
                     ELSE << emit_feature(node, 9, TRUE), emit_keyword(10, "alternative") >>
                          \o [i \in 1..Len(choices) |-> emit_feature(choices[i], 11, FALSE)]),
              names |-> IF choices = <<>> THEN {} ELSE {node} \cup Range(choices),
              report |-> IF choices = <<>>
                         THEN { <<"WARN_ITEM_NO_VALID_ANSWERS_BUILT_ITEM_ONLY", cat, ikey>> }
                         ELSE {}]

\* the block of one category
CategoryBlock(cat, df_content, require_answers) ==
    LET cat_rows == SelectSeq(df_content, LAMBDA r : r.CATEGORY_CODE = cat)
        valid    == drop_duplicates_items(
                        SelectSeq(cat_rows, LAMBDA r : r.ITEM_KEY # NA /\ r.ITEM_FEATURE_NAME # NA))
        blocks   == [i \in 1..Len(valid) |-> ItemBlock(cat, cat_rows, valid[i], require_answers)]
    IN  IF valid = <<>>
        THEN [lines |-> <<>>, names |-> {},
              report |-> { <<"SKIP_CATEGORY_NO_VALID_ITEMS", cat, NA>> }]
        ELSE [lines |-> << emit_feature(cat, 5, TRUE), emit_keyword(6, "mandatory") >>
                         \o Concat([i \in 1..Len(blocks) |-> blocks[i].lines]),
              names |-> UNION { blocks[i].names : i \in 1..Len(blocks) },
              report |-> UNION { blocks[i].report : i \in 1..Len(blocks) }]

\* the constraint lines of one capability flag
FlagConstraint(profile, i, valid_features) ==
    LET on   == branches_with_flag(profile, FlagColumns[i])
        expr == << branch_cap_flags[i], "<=>", "(" >>
                \o Concat([j \in 1..Len(on) |-> IF j = 1 THEN <<on[j]>> ELSE <<"|", on[j]>>])
                \o << ")" >>
    IN  IF on # <<>>
        THEN IF is_constraint_valid(expr, valid_features) THEN <<emit_constraint(expr)>> ELSE <<>>
        ELSE <<emit_constraint(<<"!", branch_cap_flags[i]>>)>>

\* the constraint lines of one row of the SCOPE_RULES sheet (its ACTION column
\* is the field ACTION_CODE here)
ScopeRuleConstraints(r, valid_features) ==
    LET expr1 == << r.TARGET_CODE, "=>", r.CAPABILITY_FLAG >>
        expr2 == << "!", r.CAPABILITY_FLAG, "=>", "!", r.TARGET_CODE >>
    IN  IF r.TARGET_CODE \notin valid_features \/ r.CAPABILITY_FLAG \notin valid_features
        THEN <<>>
        ELSE IF r.ACTION_CODE \in {"forbid", "require"}
        THEN (IF is_constraint_valid(expr1, valid_features) THEN <<emit_constraint(expr1)>> ELSE <<>>)
             \o (IF is_constraint_valid(expr2, valid_features) THEN <<emit_constraint(expr2)>> ELSE <<>>)
        ELSE <<>>

\* build_uvl_from_structure: the outcome of one build
\*   [raised |-> TRUE] when the mapping check raises (nothing is written),
\*   else the written lines and the skip report
build_uvl_from_structure(df_raw, profile, rules, namespace, require_answers) ==
    LET branches_universe == safe_sorted_unique(Column(df_raw, "BRANCH_FEATURE_CODE"))
        df_content     == drop_duplicates_content(df_raw)
        categories_all == safe_sorted_unique(Column(df_content, "CATEGORY_CODE"))
        audit_types    == safe_sorted_unique(Column(df_content, "AUDIT_TYPE_CODE"))
        audit_plans    == safe_sorted_unique(Column(df_content, "AUDIT_PLAN_CODE"))
        item_features  == safe_sorted_unique(Column(df_content, "ITEM_FEATURE_NAME"))
        cats  == [i \in 1..Len(categories_all) |->
                    CategoryBlock(categories_all[i], df_content, require_answers)]
        valid_features ==
            Range(branch_cap_flags) \cup Range(audit_types) \cup Range(audit_plans)
            \cup Range(branches_universe) \cup Range(categories_all) \cup Range(item_features)
            \cup CONTAINER_FEATURES \cup UNION { cats[i].names : i \in 1..Len(cats) }
        features_section ==
            << Line(0, <<"namespace", namespace>>), Line(0, <<>>), Line(0, <<"features">>),
               emit_feature("InternalAuditSystem", 1, TRUE), emit_keyword(2, "mandatory"),
               emit_feature("BranchCapabilities", 3, TRUE), emit_keyword(4, "optional") >>
            \o [i \in 1..3 |-> emit_feature(branch_cap_flags[i], 5, FALSE)]
            \o (IF audit_types # <<>>
                THEN << emit_feature("AuditType", 3, TRUE), emit_keyword(4, "alternative") >>
                     \o [i \in 1..Len(audit_types) |-> emit_feature(audit_types[i], 5, FALSE)]
                ELSE <<>>)
            \o (IF branches_universe # <<>>
                THEN << emit_feature("AuditedEntity", 3, TRUE), emit_keyword(4, "alternative") >>
                     \o [i \in 1..Len(branches_universe) |-> emit_feature(branches_universe[i], 5, FALSE)]
                ELSE <<>>)
            \o << emit_feature("AuditScope", 3, TRUE), emit_keyword(4, "or") >>
            \o Concat([i \in 1..Len(cats) |-> cats[i].lines])
            \o << emit_keyword(2, "optional") >>
            \o (IF audit_plans # <<>>
                THEN << emit_feature("AuditPlan", 3, TRUE), emit_keyword(4, "alternative") >>
                     \o [i \in 1..Len(audit_plans) |-> emit_feature(audit_plans[i], 5, FALSE)]
                ELSE <<>>)
            \o << emit_feature("RelatedVisit", 3, TRUE) >>
        constraints_section ==
            << Line(0, <<>>), Line(0, <<"constraints">>) >>
            \o Concat([i \in 1..3 |-> FlagConstraint(profile, i, valid_features)])
            \o (IF "planned" \in valid_features
                THEN << emit_constraint(<<"planned", "=>", "AuditPlan">>),
                        emit_constraint(<<"!", "planned", "=>", "!", "AuditPlan">>) >>
                ELSE <<>>)
            \o (IF "re_evaluate" \in valid_features
                THEN << emit_constraint(<<"re_evaluate", "=>", "RelatedVisit">>),
                        emit_constraint(<<"!", "re_evaluate", "=>", "!", "RelatedVisit">>) >>
                ELSE <<>>)
            \o Concat([i \in 1..Len(rules) |-> ScopeRuleConstraints(rules[i], valid_features)])
    IN  IF detect_fatal_mapping_conflicts(df_content)
        THEN [raised |-> TRUE, lines |-> <<>>, report |-> {}]
        ELSE [raised |-> FALSE,
              lines  |-> features_section \o constraints_section,
              report |-> UNION { cats[i].report : i \in 1..Len(cats) }]

-----------------------------------------------------------------------------
(* State machines *)

NoAnalysis == [nf |-> 0, constraints |-> 0, audit_type_options_count |-> 0,
               dead_features |-> {}, false_optional |-> {}, defects_raw |-> {},
               defects_filtered |-> {}, is_visit_type_artifact |-> FALSE]

IdleAnalyzer == kr = KRModel({}, {}, {}) /\ analysis = NoAnalysis /\ apc = "idle"
IdleHarness ==
    /\ pairs = <<>> /\ clean_analysis = <<>> /\ inj_analysis = <<>>
    /\ run_rows = {} /\ verify_rows = <<>> /\ summary = <<>>
    /\ hpc = "idle" /\ hidx = 0

IdleParse ==
    /\ section = "none" /\ stack = <<>> /\ pending_group_kind = <<>>
    /\ features = <<>> /\ groups = {} /\ nlines = 0 /\ ppc = "idle"
IdleBuild ==
    /\ input_sheet = <<>> /\ branch_profile = {} /\ scope_rules = <<>>
    /\ uvl_file = <<>> /\ report = {} /\ kr_file = NoFile /\ bpc = "idle"

IdleBatchBuild ==
    /\ batch_sheets = <<>> /\ batch_idx = 0 /\ batch_out = <<>> /\ batch_pc = "idle"
\* exit_status while the process runs
NotExited == -1
IdleRunBatch ==
    /\ uvl_files = <<>> /\ file_idx = 0 /\ summary_rows = <<>> /\ out_dir = {}
    /\ ok = 0 /\ fail = 0 /\ csv_rows = <<>> /\ exit_status = NotExited /\ tpc = "idle"
IdleInject ==
    /\ source_dir = <<>> /\ inj_idx = 0 /\ output_dir = {} /\ tracking_list = <<>>
    /\ status_log = <<>> /\ oracle_key = <<>> /\ first_run = <<>> /\ ipc = "idle"
IdleKeys ==
    /\ stem = <<>> /\ model_key = <<>> /\ key_pairs = {} /\ kpc = "idle"
IdleRebuild == hash_seeds = <<>> /\ rebuilt_file = <<>>
IdleFile == lines_read = <<>>
IdleEnd ==
    /\ injected_uvl = NoFile /\ injected_targets = <<>> /\ injected_kr = NoFile
    /\ end_row = NoFile /\ epc = "idle"
IdleNew == IdleRebuild /\ IdleFile /\ IdleEnd
IdleLater == IdleBatchBuild /\ IdleRunBatch /\ IdleInject /\ IdleKeys /\ IdleNew

-----------------------------------------------------------------------------
(* Analyzer runs: the KR files the analyzer is given                        *)

MaxImps == 2

Others == {"a", "b"}
AFeatures == {ROOT_FEATURE} \cup Others

\* parent maps that make a tree rooted at the root
RECURSIVE Reaches(_, _, _)
Reaches(par, f, n) ==
    IF f = ROOT_FEATURE THEN TRUE
    ELSE IF n = 0 THEN FALSE ELSE Reaches(par, par[f], n - 1)

TreeParents ==
    { par \in [Others -> AFeatures] :
        \A f \in Others : par[f] # f /\ Reaches(par, f, Cardinality(Others)) }

GroupsOf(par, kind) ==
    { g \in { [parent |-> p, gtype |-> k,
               children |-> { c \in Others : par[c] = p /\ kind[c] = k }]
              : p \in AFeatures, k \in GROUP_KINDS } : g.children # {} }

Literals == { Pos(f) : f \in AFeatures } \cup { Neg(f) : f \in AFeatures }
ImpCands == { [lhs |-> l, rhs |-> r] : l \in Literals, r \in Literals } \
            { [lhs |-> l, rhs |-> l] : l \in Literals }

RECURSIVE SetsUpTo(_, _)
SetsUpTo(S, n) ==
    IF n = 0 THEN {{}}
    ELSE LET prev == SetsUpTo(S, n - 1)
         IN  prev \cup { s \cup {x} : s \in prev, x \in S }

AnalyzerModels ==
    { KRModel(AFeatures, GroupsOf(par, kind), imps) :
        par \in TreeParents, kind \in [Others -> GROUP_KINDS],
        imps \in SetsUpTo(ImpCands, MaxImps) }

InitAnalyzer ==
    /\ kr \in AnalyzerModels
    /\ analysis = NoAnalysis
    /\ apc = "loaded"
    /\ IdleHarness /\ IdleParse /\ IdleBuild /\ IdleLater

\* analyze_kr_for_defects(kr, mk, root=ROOT_FEATURE) as build_final_report calls it
Analyze ==
    /\ apc = "loaded"
    /\ analysis' = analyze_kr_for_defects(kr, ROOT_FEATURE)
    /\ apc' = "analyzed"
    /\ UNCHANGED <<kr, hvars, pvars, bvars, lvars>>

NextAnalyzer == Analyze

SpecAnalyzer == InitAnalyzer /\ [][NextAnalyzer]_vars

-----------------------------------------------------------------------------
(* Runs of build_final_report *)

\* --- the KR files of a run
NumKeys == 2

KeySeq == <<"m1", "m2", "m3", "m4">>

HBaseFeatures == {ROOT_FEATURE, "AuditType", "planned", "AuditPlan", "p", "q", "r", "s"}

\* the builder's constraints of a model whose audit types include planned
HBaseImps == { [lhs |-> Pos("planned"), rhs |-> Pos("AuditPlan")],
               [lhs |-> Neg("planned"), rhs |-> Neg("AuditPlan")] }

HStructure(types) ==
    { [parent |-> ROOT_FEATURE, gtype |-> "mandatory", children |-> {"AuditType", "p"}],
      [parent |-> "AuditType", gtype |-> "alternative", children |-> types],
      [parent |-> ROOT_FEATURE, gtype |-> "optional", children |-> {"AuditPlan", "s"}],
      [parent |-> "p", gtype |-> "optional", children |-> {"q", "r"}] }

HTypeSets == { {"planned"}, {"planned", "adhoc"} }

HClean(types) == KRModel(HBaseFeatures \cup types, HStructure(types), HBaseImps)

\* implications an injected file may hold beyond the clean ones
Injections ==
    { {},
      { [lhs |-> Pos(ROOT_FEATURE), rhs |-> Neg("q")] },
      { [lhs |-> Pos(ROOT_FEATURE), rhs |-> Pos("r")] },
      { [lhs |-> Pos(ROOT_FEATURE), rhs |-> Neg("q")],
        [lhs |-> Pos(ROOT_FEATURE), rhs |-> Pos("r")] },
      { [lhs |-> Pos(ROOT_FEATURE), rhs |-> Neg("q")],
        [lhs |-> Pos(ROOT_FEATURE), rhs |-> Pos("s")] },
      { [lhs |-> Pos(ROOT_FEATURE), rhs |-> Pos("ghost")] },
      { [lhs |-> Pos(ROOT_FEATURE), rhs |-> Neg("ghost")] },
      { [lhs |-> Pos("r"), rhs |-> Pos(ROOT_FEATURE)] },
      { [lhs |-> Pos(ROOT_FEATURE), rhs |-> Neg("q")],
        [lhs |-> Pos(ROOT_FEATURE), rhs |-> Pos("r")],
        [lhs |-> Pos("r"), rhs |-> Pos(ROOT_FEATURE)] } }

HInjected(types, inj, dropped) ==
    KRModel(HBaseFeatures \cup types, HStructure(types), (HBaseImps \ dropped) \cup inj)

\* the files found for one model key: a clean file, an injected file, or both
PairFiles ==
    { [CleanFile |-> HClean(t), InjectedFile |-> HInjected(t, inj, {}) ]
        : t \in HTypeSets, inj \in Injections }
    \cup { [CleanFile |-> HClean(t), InjectedFile |-> NoFile] : t \in HTypeSets }
    \cup { [CleanFile |-> NoFile, InjectedFile |-> HInjected(t, inj, {})]
        : t \in HTypeSets, inj \in { i \in Injections : Cardinality(i) = 3 } }
    \cup { [CleanFile |-> HClean(t),
            InjectedFile |-> HInjected(t, {}, {[lhs |-> Neg("planned"), rhs |-> Neg("AuditPlan")]})]
        : t \in HTypeSets }

PairRow(k, f) == [ModelKey |-> k, CleanFile |-> f.CleanFile, InjectedFile |-> f.InjectedFile]

InitHarness ==
    /\ IdleAnalyzer /\ IdleParse /\ IdleBuild /\ IdleLater
    /\ \E fs \in [1..NumKeys -> PairFiles] :
          pairs = [i \in 1..NumKeys |-> PairRow(KeySeq[i], fs[i])]
    /\ clean_analysis = <<>>
    /\ inj_analysis = <<>>
    /\ run_rows = {}
    /\ verify_rows = <<>>
    /\ summary = <<>>
    /\ hpc = "analyze"
    /\ hidx = 1

\* first loop: load and analyze the files of pair hidx
AnalyzePair ==
    /\ hpc = "analyze" /\ hidx <= Len(pairs)
    /\ LET row == pairs[hidx] IN
        /\ clean_analysis' =
              IF row.CleanFile # NoFile
              THEN clean_analysis @@ (row.ModelKey :> analyze_kr_for_defects(row.CleanFile, ROOT_FEATURE))
              ELSE clean_analysis
        /\ inj_analysis' =
              IF row.InjectedFile # NoFile
              THEN inj_analysis @@ (row.ModelKey :> analyze_kr_for_defects(row.InjectedFile, ROOT_FEATURE))
              ELSE inj_analysis
    /\ hidx' = hidx + 1
    /\ UNCHANGED <<pairs, run_rows, verify_rows, summary, hpc, avars, pvars, bvars, lvars>>

RunRow(row, grp) ==
    LET f   == IF grp = "Clean" THEN row.CleanFile ELSE row.InjectedFile
        ana == IF grp = "Clean" THEN Get(clean_analysis, row.ModelKey)
               ELSE Get(inj_analysis, row.ModelKey)
    IN  IF f = NoFile \/ ana = NoFile
        THEN [Group |-> grp, ModelKey |-> row.ModelKey, Present |-> f # NoFile, NF |-> 0,
              Constraints |-> 0, N_Dead |-> 0, N_FalseOptional |-> 0, Defects |-> {}]
        ELSE [Group |-> grp, ModelKey |-> row.ModelKey, Present |-> TRUE, NF |-> ana.nf,
              Constraints |-> ana.constraints,
              N_Dead |-> Cardinality(ana.dead_features),
              N_FalseOptional |-> Cardinality(ana.false_optional),
              Defects |-> ana.defects_raw]

\* second loop: the run table (no earlier results file to enrich from)
BuildRunTable ==
    /\ hpc = "analyze" /\ hidx > Len(pairs)
    /\ run_rows' = { RunRow(pairs[i], g) : i \in 1..Len(pairs), g \in {"Clean", "Injected"} }
    /\ hpc' = "verify"
    /\ hidx' = 1
    /\ UNCHANGED <<pairs, clean_analysis, inj_analysis, verify_rows, summary, avars, pvars, bvars, lvars>>

\* third loop: the verification row of pair hidx
VerifyPair ==
    /\ hpc = "verify" /\ hidx <= Len(pairs)
    /\ verify_rows' = Append(verify_rows,
                             VerifyRow(pairs[hidx], Get(inj_analysis, pairs[hidx].ModelKey)))
    /\ hidx' = hidx + 1
    /\ UNCHANGED <<pairs, clean_analysis, inj_analysis, run_rows, summary, hpc, avars, pvars, bvars, lvars>>

\* the summary sheet
Summarize ==
    /\ hpc = "verify" /\ hidx > Len(pairs)
    /\ summary' = [Pairs |-> Len(pairs),
                   OK |-> CountStatus(verify_rows, "OK"),
                   MISSING_INJECTION |-> CountStatus(verify_rows, "MISSING_INJECTION"),
                   DETECTOR_MISS |-> CountStatus(verify_rows, "DETECTOR_MISS"),
                   INVALID_TARGET |-> CountStatus(verify_rows, "INVALID_TARGET")]
    /\ hpc' = "done"
    /\ UNCHANGED <<pairs, clean_analysis, inj_analysis, run_rows, verify_rows, hidx, avars, pvars, bvars, lvars>>

Next == AnalyzePair \/ BuildRunTable \/ VerifyPair \/ Summarize

Init == InitHarness

Spec == Init /\ [][Next]_vars

-----------------------------------------------------------------------------
(* Runs of parse_uvl *)

\* --- parse_uvl reading the features section line by line
MaxLines == 5

PNames == {"x", "y", "z"}
FeatureIndents == {0, 2, 4}
KeywordIndents == {1, 3}
PKinds == {"mandatory", "optional"}

FeatureLines ==
    { Line(n, <<f>>) : n \in FeatureIndents, f \in PNames }
    \cup { Line(n, <<f, "{abstract}">>) : n \in {0}, f \in PNames }
KeywordLines == { Line(n, <<k>>) : n \in KeywordIndents, k \in PKinds }

InitParse ==
    /\ IdleAnalyzer /\ IdleHarness /\ IdleBuild /\ IdleLater
    /\ section = "features"
    /\ stack = <<>>
    /\ pending_group_kind = <<>>
    /\ features = <<>>
    /\ groups = {}
    /\ nlines = 0
    /\ ppc = "reading"

ParserState ==
    [section |-> section, stack |-> stack, pending_group_kind |-> pending_group_kind,
     features |-> features, groups |-> groups, constraints |-> <<>>,
     namespace |-> "", failed |-> FALSE]

ReadLine(line) ==
    /\ ppc = "reading" /\ nlines < MaxLines
    /\ LET st == ParseLine(ParserState, line) IN
        /\ stack' = st.stack
        /\ pending_group_kind' = st.pending_group_kind
        /\ features' = st.features
        /\ groups' = st.groups
        /\ section' = st.section
    /\ nlines' = nlines + 1
    /\ UNCHANGED <<ppc, avars, hvars, bvars, lvars>>

ReadKeyword == \E line \in KeywordLines : ReadLine(line)
ReadFeature == \E line \in FeatureLines : ReadLine(line)

\* end of file: the children of each group are sorted
FinishParse ==
    /\ ppc = "reading"
    /\ ppc' = "parsed"
    /\ UNCHANGED <<section, stack, pending_group_kind, features, groups, nlines, avars, hvars, bvars, lvars>>

NextParse == ReadKeyword \/ ReadFeature \/ FinishParse

SpecParse == InitParse /\ [][NextParse]_vars

-----------------------------------------------------------------------------
(* Runs of build_uvl_from_structure, each followed by transform_one         *)

MaxRows == 3

\* rows of a sheet: category, item key, item feature, answer feature, branch,
\* audit type, audit plan
SheetRows ==
    { Row("c1", "k1", "f1", "y1", "b1", "planned", NA),
      Row("c1", "k1", "f1", "y2", "b1", NA, "pl1"),
      Row("c1", "k1", "f1", "y1", "b2", "re_evaluate", "pl1"),
      Row("c1", "k2", "f2", NA, "b1", NA, NA),
      Row("c2", "k1", "f1", "y1", "b1", NA, NA),
      Row("c2", NA, NA, NA, "b2", "planned", NA),
      Row("c1", "k1", "f2", "y1", "b1", NA, NA),
      Row("c2", "k2", "f1", "y2", "b2", NA, NA),
      Row("c2", "k2", "f2", "y2", "b2", NA, NA) }

RECURSIVE SeqsUpTo(_, _)
SeqsUpTo(S, n) ==
    IF n = 0 THEN {<<>>}
    ELSE LET prev == SeqsUpTo(S, n - 1)
         IN  prev \cup { Append(s, x) : s \in prev, x \in S }

ProfileRow(b, iso, micro, path) ==
    [BRANCH_FEATURE_CODE |-> b, ISO_ACTIVE |-> iso, MICRO_ACTIVE |-> micro, PATH_ACTIVE |-> path]

\* BRANCH_PROFILE sheets (the empty one: no such sheet)
Profiles ==
    { {},
      { ProfileRow("b1", 1, 0, 0) },
      { ProfileRow("b1", 1, 1, 0), ProfileRow("b2", 1, 0, 0) },
      { ProfileRow("b3", 0, 0, 1) } }

ScopeRule(flag, target, action) ==
    [CAPABILITY_FLAG |-> flag, TARGET_CODE |-> target, ACTION_CODE |-> action]

\* SCOPE_RULES sheets (the empty one: no such sheet)
RuleSheets ==
    { <<>>,
      << ScopeRule("iso_active", "c1", "require") >>,
      << ScopeRule("micro_active", "c2", "forbid") >>,
      << ScopeRule("path_active", "f2", "require") >>,
      << ScopeRule("iso_active", "zz", "require") >> }

UVL_NAMESPACE == "MedicareAuditStructure"

InitBuild ==
    /\ IdleAnalyzer /\ IdleHarness /\ IdleParse /\ IdleLater
    /\ input_sheet \in SeqsUpTo(SheetRows, MaxRows)
    /\ branch_profile \in Profiles
    /\ scope_rules \in RuleSheets
    /\ uvl_file = <<>>
    /\ report = {}
    /\ kr_file = NoFile
    /\ bpc = "input"

\* build_uvl_from_structure(xlsx, sheet, out_path, namespace, require_answers=True)
Build ==
    /\ bpc = "input"
    /\ LET out == build_uvl_from_structure(input_sheet, branch_profile, scope_rules,
                                           UVL_NAMESPACE, TRUE)
       IN  IF out.raised
           THEN /\ bpc' = "raised"
                /\ UNCHANGED <<uvl_file, report>>
           ELSE /\ bpc' = "written"
                /\ uvl_file' = out.lines
                /\ report' = out.report
    /\ UNCHANGED <<input_sheet, branch_profile, scope_rules, kr_file, avars, hvars, pvars, lvars>>

\* transform_one on the written file
Transform ==
    /\ bpc = "written"
    /\ kr_file' = transform_one(uvl_file)
    /\ bpc' = "transformed"
    /\ UNCHANGED <<input_sheet, branch_profile, scope_rules, uvl_file, report, avars, hvars, pvars, lvars>>

NextBuild == Build \/ Transform

SpecBuild == InitBuild /\ [][NextBuild]_vars

-----------------------------------------------------------------------------
(* The batch runners of the builder:                                        *)
(*   batch_build_uvl_from_reduced_10models.run and                          *)
(*   101_run_structure_universal.main                                       *)

MaxSheets == 3

\* a sheet of a workbook: whether it has the five required columns, and its rows
Sheet(cols_ok, rows) == [columns_ok |-> cols_ok, rows |-> rows]

BatchSheetKinds ==
    { Sheet(TRUE, << Row("c1", "k1", "f1", "y1", "b1", "planned", "pl1") >>),
      Sheet(TRUE, << Row("c1", "k2", "f2", "y2", "b2", NA, NA),
                     Row("c2", NA, NA, NA, "b2", NA, NA) >>),
      Sheet(TRUE, << Row("c1", "k1", "f1", "y1", "b1", NA, NA),
                     Row("c1", "k1", "f2", "y1", "b1", NA, NA) >>),
      Sheet(FALSE, <<>>) }

\* build_uvl_from_structure on one sheet: _require_columns, then the build
build_sheet(sheet) ==
    IF ~sheet.columns_ok
    THEN [raised |-> TRUE, lines |-> <<>>, report |-> {}]
    ELSE build_uvl_from_structure(sheet.rows, {}, <<>>, UVL_NAMESPACE, TRUE)

\* batch_pc names the runner while it loops: "run" or "main"
InitBatchBuild ==
    /\ IdleAnalyzer /\ IdleHarness /\ IdleParse /\ IdleBuild
    /\ IdleRunBatch /\ IdleInject /\ IdleKeys /\ IdleNew
    /\ batch_sheets \in SeqsUpTo(BatchSheetKinds, MaxSheets) \ {<<>>}
    /\ batch_idx = 0
    /\ batch_out = [i \in 1..Len(batch_sheets) |-> <<>>]
    /\ batch_pc \in {"run", "main"}

\* one turn of the loop over the sheets: the build returns
BuildSheetDone ==
    /\ batch_pc \in {"run", "main"}
    /\ batch_idx < Len(batch_sheets)
    /\ ~build_sheet(batch_sheets[batch_idx + 1]).raised
    /\ batch_out' = [batch_out EXCEPT ![batch_idx + 1] = build_sheet(batch_sheets[batch_idx + 1]).lines]
    /\ batch_idx' = batch_idx + 1
    /\ UNCHANGED <<batch_sheets, batch_pc, avars, hvars, pvars, bvars, tvars, ivars, kvars, nvars>>

\* one turn of the loop: the build raises.  Neither loop has a handler of its
\* own: the exception leaves run, and in main it reaches the handler around
\* the whole loop.
BuildSheetRaises ==
    /\ batch_pc \in {"run", "main"}
    /\ batch_idx < Len(batch_sheets)
    /\ build_sheet(batch_sheets[batch_idx + 1]).raised
    /\ batch_pc' = IF batch_pc = "run" THEN "uncaught" ELSE "critical_error"
    /\ UNCHANGED <<batch_sheets, batch_idx, batch_out, avars, hvars, pvars, bvars, tvars, ivars, kvars, nvars>>

\* the loop is over
FinishBatchBuild ==
    /\ batch_pc \in {"run", "main"}
    /\ batch_idx = Len(batch_sheets)
    /\ batch_pc' = "all_done"
    /\ UNCHANGED <<batch_sheets, batch_idx, batch_out, avars, hvars, pvars, bvars, tvars, ivars, kvars, nvars>>

NextBatchBuild == BuildSheetDone \/ BuildSheetRaises \/ FinishBatchBuild

SpecBatchBuild == InitBatchBuild /\ [][NextBatchBuild]_vars

-----------------------------------------------------------------------------
(* batch_uvl_to_kr.py : run_batch and main                                  *)

\* the paths that in_dir.rglob("*.uvl") can find, in sorted order
File(dir, name) == [dir |-> dir, stem |-> name]
PathOrder == << File("", "m1"), File("", "m2"), File("sub", "m1"), File("sub", "m2") >>

\* the texts a file can hold
GoodTextA ==
    << Line(0, <<"features">>), Line(4, <<"R", "{abstract}">>), Line(8, <<"mandatory">>),
       Line(12, <<"a">>), Line(0, <<"constraints">>), Line(4, <<"R", "=>", "a">>) >>
GoodTextB ==
    << Line(0, <<"features">>), Line(4, <<"R">>), Line(8, <<"optional">>),
       Line(12, <<"a">>), Line(12, <<"b">>) >>
BadText ==
    << Line(0, <<"features">>), Line(4, <<"R">>), Line(8, <<"a", "b">>) >>
Texts == {GoodTextA, GoodTextB, BadText}
NoText == <<>>

\* the input directory: the text of each path, NoText where there is no file
InputDirs == [1..Len(PathOrder) -> Texts \cup {NoText}]

FoundFile(d, i) == [path |-> PathOrder[i], text |-> d[i]]

\* uvl_files = sorted(in_dir.rglob(pattern))
rglob_sorted(d) ==
    LET idx == SelectSeq([i \in 1..Len(PathOrder) |-> i], LAMBDA i : d[i] # NoText)
    IN  [k \in 1..Len(idx) |-> FoundFile(d, idx[k])]

\* out_dir / f"{f.stem}.kr.pl"
kr_path(f) == f.path.stem

ParseErrorText == "Cannot parse feature declaration"

\* the stats returned by transform_one
Stats(text) ==
    LET st == parse_uvl(text)
    IN  [features |-> Cardinality(DOMAIN st.features), groups |-> Cardinality(st.groups),
         constraints |-> Len(st.constraints)]

\* the summary row of a file that was transformed (no "error" key)
OkRow(f) ==
    [uvl_file |-> f.path, kr_file |-> kr_path(f), features |-> Stats(f.text).features,
     groups |-> Stats(f.text).groups, constraints |-> Stats(f.text).constraints,
     has_error |-> FALSE, error |-> ""]

\* a failure row that keeps no error text
FailRow_NoErrorText(f, e) ==
    [uvl_file |-> f.path, kr_file |-> "", features |-> 0, groups |-> 0, constraints |-> 0,
     has_error |-> TRUE, error |-> ""]

\* the summary row of a file whose transformation raised e
FailRow(f, e) ==
    [uvl_file |-> f.path, kr_file |-> "", features |-> 0, groups |-> 0, constraints |-> 0,
     has_error |-> TRUE, error |-> e]

\* the row written to kr_summary.csv: a missing "error" becomes ""
CsvRow(r) ==
    [uvl_file |-> r.uvl_file, kr_file |-> r.kr_file, features |-> r.features,
     groups |-> r.groups, constraints |-> r.constraints,
     error |-> IF r.has_error THEN r.error ELSE ""]

\* out_path.write_text: the file of that name is created or replaced
write_text(dir, name, source, facts) ==
    { o \in dir : o.name # name } \cup { [name |-> name, source |-> source, facts |-> facts] }

InitRunBatch ==
    /\ IdleAnalyzer /\ IdleHarness /\ IdleParse /\ IdleBuild
    /\ IdleBatchBuild /\ IdleInject /\ IdleKeys /\ IdleNew
    /\ uvl_files \in { rglob_sorted(d) : d \in InputDirs }
    /\ file_idx = 0
    /\ summary_rows = <<>>
    /\ out_dir = {}
    /\ ok = 0 /\ fail = 0
    /\ csv_rows = <<>>
    /\ exit_status = NotExited
    /\ tpc = "called"

\* if not uvl_files: return
NoFilesFound ==
    /\ tpc = "called" /\ uvl_files = <<>>
    /\ tpc' = "returned"
    /\ UNCHANGED <<uvl_files, file_idx, summary_rows, out_dir, ok, fail, csv_rows, exit_status,
                   avars, hvars, pvars, bvars, xvars, ivars, kvars, nvars>>

StartLoop ==
    /\ tpc = "called" /\ uvl_files # <<>>
    /\ tpc' = "loop"
    /\ UNCHANGED <<uvl_files, file_idx, summary_rows, out_dir, ok, fail, csv_rows, exit_status,
                   avars, hvars, pvars, bvars, xvars, ivars, kvars, nvars>>

\* the try branch of the loop body: transform_one returns
TransformDone ==
    /\ tpc = "loop" /\ file_idx < Len(uvl_files)
    /\ LET f == uvl_files[file_idx + 1] IN
        /\ transform_one(f.text) # NoFile
        /\ out_dir' = write_text(out_dir, kr_path(f), f.path, transform_one(f.text))
        /\ summary_rows' = Append(summary_rows, OkRow(f))
    /\ ok' = ok + 1
    /\ file_idx' = file_idx + 1
    /\ UNCHANGED <<uvl_files, fail, csv_rows, exit_status, tpc,
                   avars, hvars, pvars, bvars, xvars, ivars, kvars, nvars>>

\* the except branch of the loop body: transform_one raised
TransformRaises ==
    /\ tpc = "loop" /\ file_idx < Len(uvl_files)
    /\ LET f == uvl_files[file_idx + 1] IN
        /\ transform_one(f.text) = NoFile
        /\ summary_rows' = Append(summary_rows, FailRow(f, ParseErrorText))
    /\ fail' = fail + 1
    /\ file_idx' = file_idx + 1
    /\ UNCHANGED <<uvl_files, out_dir, ok, csv_rows, exit_status, tpc,
                   avars, hvars, pvars, bvars, xvars, ivars, kvars, nvars>>

\* the summary table is written after the loop
WriteSummary ==
    /\ tpc = "loop" /\ file_idx = Len(uvl_files)
    /\ csv_rows' = [i \in 1..Len(summary_rows) |-> CsvRow(summary_rows[i])]
    /\ tpc' = "returned"
    /\ UNCHANGED <<uvl_files, file_idx, summary_rows, out_dir, ok, fail, exit_status,
                   avars, hvars, pvars, bvars, xvars, ivars, kvars, nvars>>

\* main returns after run_batch: the interpreter exits with status 0
MainReturns ==
    /\ tpc = "returned"
    /\ exit_status' = 0
    /\ tpc' = "exited"
    /\ UNCHANGED <<uvl_files, file_idx, summary_rows, out_dir, ok, fail, csv_rows,
                   avars, hvars, pvars, bvars, xvars, ivars, kvars, nvars>>

NextRunBatch ==
    NoFilesFound \/ StartLoop \/ TransformDone \/ TransformRaises \/ WriteSummary \/ MainReturns

SpecRunBatch == InitRunBatch /\ [][NextRunBatch]_vars

-----------------------------------------------------------------------------
(* inject_scientific_defects_v5.py                                          *)
(* A text file is [lines, final_nl]: its lines and whether the last one     *)
(* ends with a newline.  A chunk is a line with its own newline flag.       *)

ROOT == "InternalAuditSystem"
RESERVED == {"features", "constraints", "mandatory", "optional", "alternative", "or", "namespace"}

TextFile(lines, final_nl) == [lines |-> lines, final_nl |-> final_nl]
Chunk(indent, toks, nl) == [indent |-> indent, toks |-> toks, nl |-> nl]

\* f.readlines()
readlines(file) ==
    [i \in 1..Len(file.lines) |->
        Chunk(file.lines[i].indent, file.lines[i].toks, i < Len(file.lines) \/ file.final_nl)]

\* _extract_features_uvl: the identifier that follows leading white space at
\* the start of a line (a blank line before it counts as white space)
IsCandidateLine(lines, i) ==
    /\ lines[i].toks # <<>>
    /\ IsName(lines[i].toks[1])
    /\ \/ lines[i].indent > 0
       \/ i > 1 /\ lines[i - 1].toks = <<>>
extract_features_uvl(file) ==
    { file.lines[i].toks[1] : i \in { j \in 1..Len(file.lines) : IsCandidateLine(file.lines, j) } }
        \ RESERVED

\* random.sample(potential_targets, 3): any three distinct targets, in any order
Samples(targets) ==
    { t \in targets \X targets \X targets : t[1] # t[2] /\ t[1] # t[3] /\ t[2] # t[3] }

injected_constraints(t) ==
    << Chunk(4, <<ROOT, "=>", "!", t[1]>>, TRUE),
       Chunk(4, <<ROOT, "=>", t[2]>>, TRUE),
       Chunk(4, <<t[3], "=>", ROOT>>, TRUE) >>

IsConstraintsLine(c) == c.toks = <<"constraints">>

\* the loop over the lines: each line, and the three constraints after every
\* line that reads "constraints"
new_content_added(chunks, t) ==
    Concat([i \in 1..Len(chunks) |->
        IF IsConstraintsLine(chunks[i]) THEN <<chunks[i]>> \o injected_constraints(t)
        ELSE <<chunks[i]>>])

\* no such line: the section is appended at the end ("\n" first when the last
\* line has no newline, then "\nconstraints\n")
new_content_appended(chunks, t) ==
    chunks
    \o (IF ~chunks[Len(chunks)].nl THEN <<Chunk(0, <<>>, TRUE)>> ELSE <<>>)
    \o << Chunk(0, <<>>, TRUE), Chunk(0, <<"constraints">>, TRUE) >>
    \o injected_constraints(t)

new_content(chunks, t) ==
    IF \E i \in 1..Len(chunks) : IsConstraintsLine(chunks[i])
    THEN new_content_added(chunks, t)
    ELSE new_content_appended(chunks, t)

\* f.writelines: the chunks are written one after the other, so a chunk
\* without newline and the chunk after it make one line
RECURSIVE joined_lines(_)
joined_lines(chunks) ==
    IF chunks = <<>> THEN <<>>
    ELSE IF ~chunks[1].nl /\ Len(chunks) >= 2
         THEN joined_lines(
                 << Chunk(chunks[1].indent, chunks[1].toks \o chunks[2].toks, chunks[2].nl) >>
                 \o SubSeq(chunks, 3, Len(chunks)))
         ELSE << Line(chunks[1].indent, chunks[1].toks) >> \o joined_lines(Tail(chunks))

writelines(chunks) == TextFile(joined_lines(chunks), chunks[Len(chunks)].nl)

\* the oracle row with the first two targets exchanged
OracleRow_Swapped(src_name, out_name, t) ==
    [File_Name |-> out_name, Source_File |-> src_name,
     DF1_DeadFeature |-> t[2], FO_FalseOptional |-> t[1], RE_Redundancy |-> t[3]]

\* the tracking row returned by inject_and_track_defects
OracleRow(src_name, out_name, t) ==
    [File_Name |-> out_name, Source_File |-> src_name,
     DF1_DeadFeature |-> t[1], FO_FalseOptional |-> t[2], RE_Redundancy |-> t[3]]

NotEnough == "Not enough features to inject 3 constraints"

\* --- the script: one run over SOURCE_DIR, then a second run over the same
\* directory

CleanA ==
    TextFile(<< Line(0, <<"features">>), Line(4, <<ROOT, "{abstract}">>), Line(8, <<"mandatory">>),
                Line(12, <<"a">>), Line(12, <<"b">>), Line(0, <<>>),
                Line(0, <<"constraints">>), Line(4, <<"a", "=>", "b">>) >>, TRUE)
\* a text whose last line is the constraints keyword, as written by "\n".join
CleanB ==
    TextFile(<< Line(0, <<"features">>), Line(4, <<ROOT, "{abstract}">>), Line(8, <<"optional">>),
                Line(12, <<"a">>), Line(12, <<"b">>), Line(0, <<>>),
                Line(0, <<"constraints">>) >>, FALSE)
\* a text without constraints section
CleanC ==
    TextFile(<< Line(0, <<"features">>), Line(4, <<ROOT>>), Line(8, <<"or">>),
                Line(12, <<"a">>), Line(12, <<"b">>) >>, FALSE)
\* a text with two candidate features
CleanD ==
    TextFile(<< Line(0, <<"features">>), Line(4, <<ROOT>>), Line(8, <<"mandatory">>),
                Line(12, <<"a">>), Line(0, <<"constraints">>), Line(4, <<"!", "a", "=>", "zz">>) >>, TRUE)
CleanTexts == {CleanA, CleanB, CleanC, CleanD}

DirEntry(name, ext, file) == [name |-> name, ext |-> ext, file |-> file]

\* sorted(os.listdir(SOURCE_DIR)): m1.uvl, m2.uvl, notes.txt, each present or not
SourceDirs ==
    { m1 \o m2 \o other :
        m1 \in {<<>>} \cup { <<DirEntry("m1", ".uvl", t)>> : t \in CleanTexts },
        m2 \in {<<>>} \cup { <<DirEntry("m2", ".uvl", t)>> : t \in CleanTexts },
        other \in { <<>>, <<DirEntry("notes", ".txt", CleanA)>> } }

\* out_n = f"{stem}_injected.uvl"
out_n(e) == e.name \o "_injected.uvl"
src_n(e) == e.name \o e.ext

InitInject ==
    /\ IdleAnalyzer /\ IdleHarness /\ IdleParse /\ IdleBuild
    /\ IdleBatchBuild /\ IdleRunBatch /\ IdleKeys /\ IdleNew
    /\ source_dir \in SourceDirs
    /\ inj_idx = 0
    /\ output_dir = {}
    /\ tracking_list = <<>>
    /\ status_log = <<>>
    /\ oracle_key = <<>>
    /\ first_run = <<>>
    /\ ipc = "run1"

Looping == ipc \in {"run1", "run2"} /\ inj_idx < Len(source_dir)

\* if not filename.endswith(".uvl"): continue
SkipOtherFile ==
    /\ Looping
    /\ source_dir[inj_idx + 1].ext # ".uvl"
    /\ inj_idx' = inj_idx + 1
    /\ UNCHANGED <<source_dir, output_dir, tracking_list, status_log, oracle_key, first_run, ipc,
                   avars, hvars, pvars, bvars, xvars, tvars, kvars, nvars>>

\* inject_and_track_defects returns the tracking row
InjectFile ==
    /\ Looping
    /\ LET e == source_dir[inj_idx + 1] IN
        /\ e.ext = ".uvl"
        /\ Cardinality(extract_features_uvl(e.file)) >= 3
        /\ \E t \in Samples(extract_features_uvl(e.file)) :
            /\ output_dir' = { o \in output_dir : o.name # out_n(e) }
                    \cup { [name |-> out_n(e), file |-> writelines(new_content(readlines(e.file), t))] }
            /\ tracking_list' = Append(tracking_list, OracleRow(src_n(e), out_n(e), t))
        /\ status_log' = Append(status_log, [file |-> src_n(e), status |-> "Injected"])
    /\ inj_idx' = inj_idx + 1
    /\ UNCHANGED <<source_dir, oracle_key, first_run, ipc,
                   avars, hvars, pvars, bvars, xvars, tvars, kvars, nvars>>

\* inject_and_track_defects returns None and the reason
InjectionInfeasible ==
    /\ Looping
    /\ LET e == source_dir[inj_idx + 1] IN
        /\ e.ext = ".uvl"
        /\ Cardinality(extract_features_uvl(e.file)) < 3
        /\ status_log' = Append(status_log, [file |-> src_n(e), status |-> NotEnough])
    /\ inj_idx' = inj_idx + 1
    /\ UNCHANGED <<source_dir, output_dir, tracking_list, oracle_key, first_run, ipc,
                   avars, hvars, pvars, bvars, xvars, tvars, kvars, nvars>>

\* after the loop: the oracle key is saved when some file was injected
SaveOracleKey ==
    /\ ipc \in {"run1", "run2"} /\ inj_idx = Len(source_dir)
    /\ oracle_key' = IF tracking_list # <<>> THEN tracking_list ELSE oracle_key
    /\ ipc' = IF ipc = "run1" THEN "done1" ELSE "done2"
    /\ UNCHANGED <<source_dir, inj_idx, output_dir, tracking_list, status_log, first_run,
                   avars, hvars, pvars, bvars, xvars, tvars, kvars, nvars>>

\* the script is started again on the same directories
RunAgain ==
    /\ ipc = "done1"
    /\ first_run' = [output_dir |-> output_dir, oracle_key |-> oracle_key]
    /\ inj_idx' = 0
    /\ tracking_list' = <<>>
    /\ status_log' = <<>>
    /\ ipc' = "run2"
    /\ UNCHANGED <<source_dir, output_dir, oracle_key,
                   avars, hvars, pvars, bvars, xvars, tvars, kvars, nvars>>

NextInject ==
    SkipOtherFile \/ InjectFile \/ InjectionInfeasible \/ SaveOracleKey \/ RunAgain

SpecInject == InitInject /\ [][NextInject]_vars

-----------------------------------------------------------------------------
(* final_logic_analyzer.py : derive_model_key and build_pairs_from_kr       *)
(* A file name is the sequence of its tokens: words of letters and digits,  *)
(* "_", "-", " ", "/", "\\" and the extensions.  Two words side by side are  *)
(* one longer word of the name.                                             *)

Extensions == {".kr.pl", ".pl", ".uvl"}
IsWordTok(t) == t \notin ({"-", " ", "/", "\\"} \cup Extensions)

\* (?i): the lower-case form of a token
Lower(t) ==
    CASE t = "DEFECTIVE" -> "defective"
      [] t = "SCIENTIFIC" -> "scientific"
      [] t = "V5" -> "v5"
      [] OTHER -> t

\* the tokens of s at the positions that satisfy Keep
Indices(s) == [i \in 1..Len(s) |-> i]
RemoveAt(s, drop) ==
    LET keep == SelectSeq(Indices(s), LAMBDA i : i \notin drop)
    IN  [k \in 1..Len(keep) |-> s[keep[k]]]

\* split("/")[-1] after replace("\\", "/")
basename(s) ==
    LET seps == { i \in 1..Len(s) : s[i] \in {"/", "\\"} }
    IN  IF seps = {} THEN s ELSE SubSeq(s, Max(seps) + 1, Len(s))

remove_extensions(s) == SelectSeq(s, LAMBDA t : t \notin Extensions)

\* \b(label)\b : the label is a whole word, with no letter, digit or "_" on
\* either side
IsWholeWord(s, i) ==
    /\ i = 1 \/ ~IsWordTok(s[i - 1])
    /\ i = Len(s) \/ ~IsWordTok(s[i + 1])
remove_labels(s, labels) ==
    RemoveAt(s, { i \in 1..Len(s) : Lower(s[i]) \in labels /\ IsWholeWord(s, i) })

\* ^scientific_v\d+_  then  ^scientific_
remove_version_prefix(s) ==
    IF /\ Len(s) >= 4 /\ Lower(s[1]) = "scientific" /\ s[2] = "_"
       /\ Lower(s[3]) = "v5" /\ s[4] = "_"
    THEN SubSeq(s, 5, Len(s)) ELSE s
remove_scientific_prefix(s) ==
    IF Len(s) >= 2 /\ Lower(s[1]) = "scientific" /\ s[2] = "_"
    THEN SubSeq(s, 3, Len(s)) ELSE s

\* _injected$
remove_injected_suffix(s) ==
    IF Len(s) >= 2 /\ s[Len(s) - 1] = "_" /\ Lower(s[Len(s)]) = "injected"
    THEN SubSeq(s, 1, Len(s) - 2) ELSE s

\* __+ -> _
collapse_underscores(s) ==
    RemoveAt(s, { i \in 2..Len(s) : s[i] = "_" /\ s[i - 1] = "_" })

\* strip("_- ")
RECURSIVE strip(_)
strip(s) ==
    IF s = <<>> THEN s
    ELSE IF s[1] \in {"_", "-", " "} THEN strip(Tail(s))
    ELSE IF s[Len(s)] \in {"_", "-", " "} THEN strip(SubSeq(s, 1, Len(s) - 1))
    ELSE s

derive_model_key(filename) ==
    LET n1 == remove_extensions(basename(filename))
        n2 == remove_labels(n1, {"clean", "original", "baseline"})
        n3 == remove_labels(n2, {"injected", "defective"})
        n4 == remove_scientific_prefix(remove_version_prefix(n3))
        n5 == remove_injected_suffix(n4)
    IN  strip(collapse_underscores(n5))

\* build_pairs_from_kr on the file names of the two indexes, in index order
\* (a later name replaces an earlier one of the same key); the rows are kept
\* as a set, "" being the empty name
LastWithKey(names, k) ==
    LET hits == { i \in 1..Len(names) : derive_model_key(names[i]) = k }
    IN  IF hits = {} THEN <<>> ELSE names[Max(hits)]
build_pairs_from_kr(clean_names, inj_names) ==
    { [ModelKey |-> k, CleanFile |-> LastWithKey(clean_names, k),
       InjectedFile |-> LastWithKey(inj_names, k)] :
        k \in { derive_model_key(clean_names[i]) : i \in 1..Len(clean_names) }
              \cup { derive_model_key(inj_names[i]) : i \in 1..Len(inj_names) } }

\* --- the file names of one model under the naming schemes of the pipeline

MaxStem == 3
StemTokens == {"m", "x", "_", "-", "clean", "injected", "baseline", "scientific", "v5"}

\* S.kr.pl, S_injected.kr.pl (inject_scientific_defects_v5),
\* SCIENTIFIC_V5_S.kr.pl (uvl_scientific_defects_v2), S_clean.kr.pl,
\* DEFECTIVE_S.kr.pl (injector.py)
Namings == << "bare", "injected_suffix", "scientific_prefix", "clean_suffix", "defective_prefix" >>
FileName(naming, s) ==
    CASE naming = "bare" -> s \o <<".kr.pl">>
      [] naming = "injected_suffix" -> s \o <<"_", "injected", ".kr.pl">>
      [] naming = "scientific_prefix" -> <<"SCIENTIFIC", "_", "V5", "_">> \o s \o <<".kr.pl">>
      [] naming = "clean_suffix" -> s \o <<"_", "clean", ".kr.pl">>
      [] naming = "defective_prefix" -> <<"DEFECTIVE", "_">> \o s \o <<".kr.pl">>

InitKeys ==
    /\ IdleAnalyzer /\ IdleHarness /\ IdleParse /\ IdleBuild
    /\ IdleBatchBuild /\ IdleRunBatch /\ IdleInject /\ IdleNew
    /\ stem \in SeqsUpTo(StemTokens, MaxStem) \ {<<>>}
    /\ model_key = <<>>
    /\ key_pairs = {}
    /\ kpc = "deriving"

\* derive_model_key on the next file name of the model
DeriveKey ==
    /\ kpc = "deriving" /\ Len(model_key) < Len(Namings)
    /\ model_key' = Append(model_key, derive_model_key(FileName(Namings[Len(model_key) + 1], stem)))
    /\ UNCHANGED <<stem, key_pairs, kpc, avars, hvars, pvars, bvars, xvars, tvars, ivars, nvars>>

\* build_pairs_from_kr on the clean file and the file of the injector
BuildPairs ==
    /\ kpc = "deriving" /\ Len(model_key) = Len(Namings)
    /\ key_pairs' = build_pairs_from_kr(<<FileName("bare", stem)>>,
                                        <<FileName("injected_suffix", stem)>>)
    /\ kpc' = "paired"
    /\ UNCHANGED <<stem, model_key, avars, hvars, pvars, bvars, xvars, tvars, ivars, nvars>>

NextKeys == DeriveKey \/ BuildPairs

SpecKeys == InitKeys /\ [][NextKeys]_vars


-----------------------------------------------------------------------------
(* Analyzer runs on KR files whose root may carry another name              *)

RootNames == {ROOT_FEATURE, "Model"}

RenameName(f, n) == IF f = ROOT_FEATURE THEN n ELSE f
RenameLiteral(l, n) ==
    IF parse_literal(l).pos THEN Pos(RenameName(parse_literal(l).feat, n))
    ELSE Neg(RenameName(parse_literal(l).feat, n))

\* the model m with its root feature named n
RenameRoot(m, n) ==
    KRModel({ RenameName(f, n) : f \in m.features },
            { [parent |-> RenameName(g.parent, n), gtype |-> g.gtype,
               children |-> { RenameName(c, n) : c \in g.children }] : g \in m.groups },
            { [lhs |-> RenameLiteral(i.lhs, n), rhs |-> RenameLiteral(i.rhs, n)] : i \in m.imps })

InitRoot ==
    /\ kr \in { RenameRoot(m, n) : m \in AnalyzerModels, n \in RootNames }
    /\ analysis = NoAnalysis
    /\ apc = "loaded"
    /\ IdleHarness /\ IdleParse /\ IdleBuild /\ IdleLater

NextRoot == Analyze

SpecRoot == InitRoot /\ [][NextRoot]_vars

-----------------------------------------------------------------------------
(* build_uvl_from_structure run twice on the same workbook, each time in a  *)
(* Python process of its own                                                *)

\* hash seeds of a process (PYTHONHASHSEED is random by default)
HashSeeds == {0, 1}

InitRebuild ==
    /\ IdleAnalyzer /\ IdleHarness /\ IdleParse
    /\ IdleBatchBuild /\ IdleRunBatch /\ IdleInject /\ IdleKeys /\ IdleFile /\ IdleEnd
    /\ input_sheet \in SeqsUpTo(SheetRows, MaxRows)
    /\ branch_profile \in Profiles
    /\ scope_rules \in RuleSheets
    /\ uvl_file = <<>>
    /\ report = {}
    /\ kr_file = NoFile
    /\ bpc = "input"
    /\ hash_seeds \in { <<s>> : s \in HashSeeds }
    /\ rebuilt_file = <<>>

\* a new process is started for the second build
Restart ==
    /\ bpc \in {"written", "raised"}
    /\ Len(hash_seeds) = 1
    /\ \E s \in HashSeeds : hash_seeds' = Append(hash_seeds, s)
    /\ bpc' = IF bpc = "written" THEN "restarted" ELSE "restarted_after_raise"
    /\ UNCHANGED <<input_sheet, branch_profile, scope_rules, uvl_file, report, kr_file,
                   rebuilt_file, avars, hvars, pvars, xvars, tvars, ivars, kvars, fvars, evars>>

\* build_uvl_from_structure again, on the unchanged workbook
Rebuild ==
    /\ bpc \in {"restarted", "restarted_after_raise"}
    /\ LET out == build_uvl_from_structure(input_sheet, branch_profile, scope_rules,
                                           UVL_NAMESPACE, TRUE)
       IN  IF out.raised
           THEN /\ bpc' = "raised_again"
                /\ UNCHANGED rebuilt_file
           ELSE /\ bpc' = "rebuilt"
                /\ rebuilt_file' = out.lines
    /\ UNCHANGED <<input_sheet, branch_profile, scope_rules, uvl_file, report, kr_file,
                   hash_seeds, avars, hvars, pvars, xvars, tvars, ivars, kvars, fvars, evars>>

NextRebuild == Build \/ Restart \/ Rebuild

SpecRebuild == InitRebuild /\ [][NextRebuild]_vars

-----------------------------------------------------------------------------
(* parse_uvl reading the features section of a file, with the lines read    *)

MaxFileLines == 4

InitFile ==
    /\ IdleAnalyzer /\ IdleHarness /\ IdleBuild
    /\ IdleBatchBuild /\ IdleRunBatch /\ IdleInject /\ IdleKeys /\ IdleRebuild /\ IdleEnd
    /\ section = "features"
    /\ stack = <<>>
    /\ pending_group_kind = <<>>
    /\ features = <<>>
    /\ groups = {}
    /\ nlines = 0
    /\ ppc = "reading"
    /\ lines_read = <<>>

\* one turn of the loop over the lines of the file
ReadFileLine(line) ==
    /\ ppc = "reading" /\ nlines < MaxFileLines
    /\ LET st == ParseLine(ParserState, line) IN
        /\ stack' = st.stack
        /\ pending_group_kind' = st.pending_group_kind
        /\ features' = st.features
        /\ groups' = st.groups
        /\ section' = st.section
    /\ nlines' = nlines + 1
    /\ lines_read' = Append(lines_read, line)
    /\ UNCHANGED <<ppc, avars, hvars, bvars, xvars, tvars, ivars, kvars, rvars, evars>>

ReadFileKeyword == \E line \in KeywordLines : ReadFileLine(line)
ReadFileFeature == \E line \in FeatureLines : ReadFileLine(line)

\* end of the file
EndOfFile ==
    /\ ppc = "reading"
    /\ ppc' = "parsed"
    /\ UNCHANGED <<section, stack, pending_group_kind, features, groups, nlines, lines_read,
                   avars, hvars, bvars, xvars, tvars, ivars, kvars, rvars, evars>>

NextFile == ReadFileKeyword \/ ReadFileFeature \/ EndOfFile

SpecFile == InitFile /\ [][NextFile]_vars

-----------------------------------------------------------------------------
(* A model built, injected, transformed and compared: uvl_builder.py,       *)
(* inject_scientific_defects_v5.py, batch_uvl_to_kr.py and the verification *)
(* loop of build_final_report                                               *)

\* load_kr_model: the features, groups and implications of a KR file
load_kr_model(facts) == KRModel(facts.feature, facts.group, Range(facts.imp))

EndSheets ==
    { <<>>,
      << Row("c1", "k1", "f1", "y1", "b1", NA, NA) >>,
      << Row("c1", "k1", "f1", "y1", "b1", "planned", "pl1") >> }
EndProfiles ==
    { {}, { ProfileRow("b1", 1, 0, 0) }, { ProfileRow("b3", 1, 1, 1) } }
EndRules == { <<>>, << ScopeRule("iso_active", "c1", "require") >> }

InitEnd ==
    /\ IdleAnalyzer /\ IdleHarness /\ IdleParse
    /\ IdleBatchBuild /\ IdleRunBatch /\ IdleInject /\ IdleKeys /\ IdleRebuild /\ IdleFile
    /\ input_sheet \in EndSheets
    /\ branch_profile \in EndProfiles
    /\ scope_rules \in EndRules
    /\ uvl_file = <<>>
    /\ report = {}
    /\ kr_file = NoFile
    /\ bpc = "input"
    /\ injected_uvl = NoFile
    /\ injected_targets = <<>>
    /\ injected_kr = NoFile
    /\ end_row = NoFile
    /\ epc = "clean"

\* the file of the builder as the injector reads it: f.write("\n".join(lines))
\* leaves the last line without newline
WrittenText == TextFile(uvl_file, FALSE)

\* inject_and_track_defects on the written model
InjectBuilt ==
    /\ epc = "clean" /\ bpc = "transformed"
    /\ Cardinality(extract_features_uvl(WrittenText)) >= 3
    /\ \E t \in Samples(extract_features_uvl(WrittenText)) :
        /\ injected_uvl' = writelines(new_content(readlines(WrittenText), t))
        /\ injected_targets' = t
    /\ epc' = "injected"
    /\ UNCHANGED <<injected_kr, end_row, bvars, avars, hvars, pvars, xvars, tvars, ivars, kvars,
                   rvars, fvars>>

\* transform_one on the injected model (no file when parse_uvl raises)
TransformInjected ==
    /\ epc = "injected"
    /\ injected_kr' = transform_one(injected_uvl.lines)
    /\ epc' = "both_transformed"
    /\ UNCHANGED <<injected_uvl, injected_targets, end_row, bvars, avars, hvars, pvars, xvars,
                   tvars, ivars, kvars, rvars, fvars>>

\* the verification loop of build_final_report on the pair
VerifyBuilt ==
    /\ epc = "both_transformed"
    /\ end_row' =
         VerifyRow([ModelKey |-> "m",
                    CleanFile |-> load_kr_model(kr_file),
                    InjectedFile |-> IF injected_kr = NoFile THEN NoFile
                                     ELSE load_kr_model(injected_kr)],
                   IF injected_kr = NoFile THEN NoFile
                   ELSE analyze_kr_for_defects(load_kr_model(injected_kr), ROOT_FEATURE))
    /\ epc' = "verified"
    /\ UNCHANGED <<injected_uvl, injected_targets, injected_kr, bvars, avars, hvars, pvars, xvars,
                   tvars, ivars, kvars, rvars, fvars>>

NextEnd == Build \/ Transform \/ InjectBuilt \/ TransformInjected \/ VerifyBuilt

SpecEnd == InitEnd /\ [][NextEnd]_vars
-----------------------------------------------------------------------------
(* Claims about the analyzer (SpecAnalyzer)                                 *)

ReportsVoid(an) == \E d \in an.defects_raw : d[1] = "VOID"

\* C1 (as stated): a model with no valid configuration is reported as VOID
\* and no dead-feature result (DF:f) is reported for it.
C1_VoidPrecedence ==
    (apc = "analyzed" /\ IsVoid(kr, ROOT_FEATURE))
        => (ReportsVoid(analysis) /\ analysis.dead_features = {})

\* the spec's own example: root mandatory{a} plus root => not(a)
C1_Example ==
    KRModel(AFeatures,
            { [parent |-> ROOT_FEATURE, gtype |-> "mandatory", children |-> {"a"}],
              [parent |-> ROOT_FEATURE, gtype |-> "optional", children |-> {"b"}] },
            { [lhs |-> Pos(ROOT_FEATURE), rhs |-> Neg("a")] })

\* C1 on the spec's example alone: no DF:a is reported for it.
C1_ExampleNoDeadResult ==
    (apc = "analyzed" /\ kr = C1_Example) => <<"DF", "a">> \notin analysis.defects_raw

\* C3 (as stated): in a model that has a valid configuration, a feature is
\* reported dead exactly when no valid configuration selects it.
C3_DeadExactly ==
    (apc = "analyzed" /\ ~IsVoid(kr, ROOT_FEATURE))
        => \A f \in kr.features :
              (f \in analysis.dead_features) <=> IsDead(kr, ROOT_FEATURE, f)

\* C4 (as stated): a child of any Optional group is reported false-optional
\* exactly when the model has a valid configuration and every one selects it.
C4_FalseOptionalExactly ==
    apc = "analyzed"
        => \A f \in OptionalChildren(kr) :
              (f \in analysis.false_optional)
                  <=> (~IsVoid(kr, ROOT_FEATURE) /\ IsCore(kr, ROOT_FEATURE, f))

-----------------------------------------------------------------------------
(* Claims about build_final_report (Spec)                                   *)

HasBoth(pr) == pr.CleanFile # NoFile /\ pr.InjectedFile # NoFile
NewFacts(pr) == IF HasBoth(pr) THEN pr.InjectedFile.imps \ pr.CleanFile.imps ELSE {}
RhsFeature(i) == IF Len(i.rhs) = 1 THEN i.rhs[1] ELSE i.rhs[2]
IsNegated(lit) == Len(lit) = 3

\* the injection of the spec's example: root => not(q) and root => r
C2_Injection == { [lhs |-> Pos(ROOT_FEATURE), rhs |-> Neg("q")],
                  [lhs |-> Pos(ROOT_FEATURE), rhs |-> Pos("r")] }

C2_Pair(pr) ==
    /\ HasBoth(pr)
    /\ pr.InjectedFile.features = pr.CleanFile.features
    /\ pr.InjectedFile.groups = pr.CleanFile.groups
    /\ pr.InjectedFile.imps = pr.CleanFile.imps \cup C2_Injection
    /\ C2_Injection \cap pr.CleanFile.imps = {}

\* C2 (as stated): for a pair whose injected model adds root => not(q) and
\* root => r, the status is OK only if the analyzer's defect list holds both
\* q as dead and r as false-optional; otherwise it is DETECTOR_MISS.
C2_HarnessClassification ==
    \A i \in 1..Len(verify_rows) :
        C2_Pair(pairs[i]) =>
            LET det  == inj_analysis[pairs[i].ModelKey].defects_raw
                both == <<"DF", "q">> \in det /\ <<"FO", "r">> \in det
            IN  /\ verify_rows[i].Status = "OK" => both
                /\ ~both => verify_rows[i].Status = "DETECTOR_MISS"

\* the status the ordered rule gives, with the defect list it tests as a parameter
OrderedStatus(pr, targets, defects) ==
    IF NewFacts(pr) = {} THEN "MISSING_INJECTION"
    ELSE IF \E t \in targets : t \notin pr.InjectedFile.features THEN "INVALID_TARGET"
    ELSE IF defects = {} THEN "DETECTOR_MISS"
    ELSE "OK"

NegatedTargets(pr) == { RhsFeature(i) : i \in { j \in NewFacts(pr) : IsNegated(j.rhs) } }
AllTargets(pr) == { RhsFeature(i) : i \in NewFacts(pr) }

InjAnalysisOf(pr) == Get(inj_analysis, pr.ModelKey)

CountsAddUp ==
    hpc = "done" =>
        /\ Len(verify_rows) = Len(pairs)
        /\ summary.Pairs = Len(pairs)
        /\ summary.OK + summary.MISSING_INJECTION + summary.DETECTOR_MISS
              + summary.INVALID_TARGET = Len(pairs)
        /\ \A st \in {"OK", "MISSING_INJECTION", "DETECTOR_MISS", "INVALID_TARGET"} :
              summary[st] = Cardinality({ i \in 1..Len(pairs) : verify_rows[i].Status = st })

\* C5 (as stated): every model key gets one status, decided in the order
\* MISSING_INJECTION (NewFacts empty), INVALID_TARGET (a target absent from
\* the injected features), DETECTOR_MISS (the analyzer reports no defect for
\* the injected model), OK; the four counts add up to the number of keys.
C5_AsStated ==
    /\ \A i \in 1..Len(verify_rows) :
          LET an == InjAnalysisOf(pairs[i])
          IN  /\ verify_rows[i].ModelKey = pairs[i].ModelKey
              /\ verify_rows[i].Status =
                    OrderedStatus(pairs[i], NegatedTargets(pairs[i]),
                                  IF an = NoFile THEN {}
                                  ELSE DefectsRaw(an.dead_features, an.false_optional))
    /\ CountsAddUp

\* C5 (amended): as C5, with DETECTOR_MISS decided on the analyzer's filtered
\* defect list (the defects without FO:AuditPlan when AuditType has exactly
\* one option and AuditPlan is reported false-optional).
C5_ClassificationTotalOrdered ==
    /\ \A i \in 1..Len(verify_rows) :
          LET an == InjAnalysisOf(pairs[i])
          IN  /\ verify_rows[i].ModelKey = pairs[i].ModelKey
              /\ verify_rows[i].Status =
                    OrderedStatus(pairs[i], NegatedTargets(pairs[i]),
                                  IF an = NoFile THEN {}
                                  ELSE IF an.audit_type_options_count = 1
                                          /\ "AuditPlan" \in an.false_optional
                                       THEN DefectsRaw(an.dead_features, an.false_optional)
                                                \ {<<"FO", "AuditPlan">>}
                                       ELSE DefectsRaw(an.dead_features, an.false_optional))
    /\ CountsAddUp

\* a finished report holding a DETECTOR_MISS row whose injected model has a
\* reported (but filtered) defect, next to a row of another status
C5_Witness ==
    /\ hpc = "done"
    /\ \E i, j \in 1..Len(verify_rows) :
          /\ verify_rows[i].Status = "DETECTOR_MISS"
          /\ verify_rows[i].DetectedDefects_RAW # {}
          /\ verify_rows[j].Status = "INVALID_TARGET"

\* C6 (as stated): a pair with non-empty NewFacts is INVALID_TARGET whenever
\* the right-hand feature of any new implication, positive or negated, is
\* not among the injected model's features.
C6_InvalidTargetRule ==
    \A i \in 1..Len(verify_rows) :
        (NewFacts(pairs[i]) # {}
           /\ \E t \in AllTargets(pairs[i]) : t \notin pairs[i].InjectedFile.features)
        => verify_rows[i].Status = "INVALID_TARGET"

-----------------------------------------------------------------------------
(* Claims about parse_uvl (SpecParse) *)

\* C8 (as stated): every feature but the root has exactly one parent, and for
\* every parent the union of the children of its groups is the set of the
\* features whose parent it is (also when a name occurs on several lines).
C8_TreeInvariant ==
    /\ Cardinality({ f \in DOMAIN features : features[f].parent = NoParent }) <= 1
    /\ \A p \in DOMAIN features :
          UNION { g.children : g \in { h \in groups : h.parent = p } }
             = { f \in DOMAIN features : features[f].parent = p }
    /\ \A g \in groups : g.parent \in DOMAIN features

-----------------------------------------------------------------------------
(* Claims about build_uvl_from_structure and transform_one (SpecBuild)      *)

\* --- what the written text declares, read by the position of its lines
IsKeywordLine(l) == Len(l.toks) = 1 /\ l.toks[1] \in GROUP_KINDS
FeaturesStart == CHOOSE i \in 1..Len(uvl_file) : uvl_file[i].toks = <<"features">>
ConstraintsStart == CHOOSE i \in 1..Len(uvl_file) : uvl_file[i].toks = <<"constraints">>
DeclLines ==
    { i \in (FeaturesStart + 1)..(ConstraintsStart - 1) :
        uvl_file[i].toks # <<>> /\ ~IsKeywordLine(uvl_file[i]) }
KeywordLineNumbers ==
    { i \in (FeaturesStart + 1)..(ConstraintsStart - 1) : IsKeywordLine(uvl_file[i]) }
DeclName(i) == uvl_file[i].toks[1]

\* the declaration a line is nested in (0: none), and the keyword it stands under
EnclosingDecls(i) == { j \in DeclLines : j < i /\ uvl_file[j].indent < uvl_file[i].indent }
DeclParentLine(i) == IF EnclosingDecls(i) = {} THEN 0 ELSE Max(EnclosingDecls(i))
EnclosingKeywords(i) ==
    { k \in KeywordLineNumbers :
        DeclParentLine(i) < k /\ k < i /\ uvl_file[k].indent < uvl_file[i].indent }
DeclKind(i) == uvl_file[Max(EnclosingKeywords(i))].toks[1]

WrittenFeatures == { DeclName(i) : i \in DeclLines }
WrittenAbstract == { DeclName(i) : i \in { j \in DeclLines : Len(uvl_file[j].toks) = 2 } }
WrittenParents ==
    { <<DeclName(i), DeclName(DeclParentLine(i))>> :
        i \in { j \in DeclLines : DeclParentLine(j) # 0 } }
GroupedDecls == { i \in DeclLines : DeclParentLine(i) # 0 /\ EnclosingKeywords(i) # {} }
WrittenGroups ==
    { [parent |-> pk[1], gtype |-> pk[2],
       children |-> { DeclName(i) : i \in { j \in GroupedDecls :
                         DeclName(DeclParentLine(j)) = pk[1] /\ DeclKind(j) = pk[2] } }] :
        pk \in { <<DeclName(DeclParentLine(i)), DeclKind(i)>> : i \in GroupedDecls } }

WrittenConstraints ==
    [i \in 1..(Len(uvl_file) - ConstraintsStart) |-> uvl_file[ConstraintsStart + i].toks]
SourceLit(t) ==
    IF Len(t) = 1 /\ IsName(t[1]) THEN Pos(t[1])
    ELSE IF Len(t) = 2 /\ t[1] = "!" /\ IsName(t[2]) THEN Neg(t[2])
    ELSE <<>>
ArrowOf(t) == CHOOSE k \in 1..Len(t) : t[k] = "=>"
IsWrittenImp(t) ==
    /\ \E k \in 1..Len(t) : t[k] = "=>"
    /\ SourceLit(SubSeq(t, 1, ArrowOf(t) - 1)) # <<>>
    /\ SourceLit(SubSeq(t, ArrowOf(t) + 1, Len(t))) # <<>>
WrittenImps ==
    LET cs == SelectSeq(WrittenConstraints, IsWrittenImp)
    IN  [i \in 1..Len(cs) |-> [lhs |-> SourceLit(SubSeq(cs[i], 1, ArrowOf(cs[i]) - 1)),
                               rhs |-> SourceLit(SubSeq(cs[i], ArrowOf(cs[i]) + 1, Len(cs[i])))]]

\* C7 (as stated): for every text written by build_uvl_from_structure,
\* parse_uvl followed by emit_kr_facts keeps the set of features, the abstract
\* flags, the parent of each feature, each group's (parent, kind, set of
\* children), and every constraint A => B as exactly one imp fact with the
\* polarity of both operands.
C7_RoundTrip ==
    bpc = "transformed" =>
        /\ kr_file # NoFile
        /\ kr_file.feature = WrittenFeatures
        /\ kr_file.abstract = WrittenAbstract
        /\ kr_file.p = WrittenParents
        /\ kr_file.group = WrittenGroups
        /\ kr_file.imp = WrittenImps

\* C9 (as stated): every feature name that occurs in a constraint of the
\* written text is declared in the features section of the same text.
C9_ReferenceIntegrity ==
    bpc \in {"written", "transformed"} =>
        \A i \in 1..Len(WrittenConstraints) : \A k \in 1..Len(WrittenConstraints[i]) :
            IsName(WrittenConstraints[i][k]) => WrittenConstraints[i][k] \in WrittenFeatures

\* --- the item mapping of the input rows
IsCoreRow(r) == r.ITEM_KEY # NA /\ r.ITEM_FEATURE_NAME # NA
KeyWithTwoFeatures ==
    \E i, j \in 1..Len(input_sheet) :
        /\ IsCoreRow(input_sheet[i]) /\ IsCoreRow(input_sheet[j])
        /\ input_sheet[i].ITEM_KEY = input_sheet[j].ITEM_KEY
        /\ input_sheet[i].ITEM_FEATURE_NAME # input_sheet[j].ITEM_FEATURE_NAME
FeatureWithTwoKeys ==
    \E i, j \in 1..Len(input_sheet) :
        /\ IsCoreRow(input_sheet[i]) /\ IsCoreRow(input_sheet[j])
        /\ input_sheet[i].ITEM_FEATURE_NAME = input_sheet[j].ITEM_FEATURE_NAME
        /\ input_sheet[i].ITEM_KEY # input_sheet[j].ITEM_KEY

\* C10: the build raises exactly when some ITEM_KEY has more than one
\* ITEM_FEATURE_NAME or some ITEM_FEATURE_NAME more than one ITEM_KEY; a build
\* that raised has written no text, no report and no facts.
C10_StructuralCorruption ==
    /\ bpc # "input" => ((KeyWithTwoFeatures \/ FeatureWithTwoKeys) <=> bpc = "raised")
    /\ bpc = "raised" => (uvl_file = <<>> /\ report = {} /\ kr_file = NoFile)

\* a build that raised for a feature name shared by two keys only
C10_Witness == bpc = "raised" /\ FeatureWithTwoKeys /\ ~KeyWithTwoFeatures

-----------------------------------------------------------------------------
(* Claims about the batch runners of the builder (SpecBatchBuild)           *)

BatchEnded == batch_pc \in {"all_done", "uncaught", "critical_error"}

\* C11 (as stated): when the build of one sheet fails, only that sheet is
\* aborted: at the end of the batch every sheet whose own build does not
\* raise has its text written.
C11_FailureIsolation ==
    BatchEnded =>
        \A i \in 1..Len(batch_sheets) :
            ~build_sheet(batch_sheets[i]).raised => batch_out[i] # <<>>

-----------------------------------------------------------------------------
(* Claims about run_batch and main (SpecRunBatch)                           *)

Parses(f) == ~parse_uvl(f.text).failed
Written(f) == \E o \in out_dir : o.name = kr_path(f)

C13_ExitStatus ==
    tpc = "exited" => ((exit_status # 0) <=> (fail > 0))

\* C14 (as stated): two input files never write the same output path: after
\* the run every transformed input still has its own derived file.
C14_OneOutputPerInput ==
    tpc \in {"returned", "exited"} =>
        \A i \in 1..Len(uvl_files) :
            Parses(uvl_files[i]) =>
                \E o \in out_dir : o.source = uvl_files[i].path

-----------------------------------------------------------------------------
(* Claims about the injector (SpecInject)                                   *)

InjectedLines(t) ==
    << Line(4, <<ROOT, "=>", "!", t[1]>>), Line(4, <<ROOT, "=>", t[2]>>),
       Line(4, <<t[3], "=>", ROOT>>) >>

\* the text is the clean text with the three lines of t put in at one place
IsCleanPlusThree(text, clean, t) ==
    \E k \in 0..Len(clean.lines) :
        text.lines = SubSeq(clean.lines, 1, k) \o InjectedLines(t)
                        \o SubSeq(clean.lines, k + 1, Len(clean.lines))

\* C15 (as stated): the injected file of a clean model with at least 3
\* candidate features holds every line of the clean file unchanged and in
\* order, plus exactly the three lines root => !d, root => f, r => root for
\* pairwise distinct candidates d, f, r.
C15_InjectionEffect ==
    \A o \in output_dir : \A i \in 1..Len(source_dir) :
        (source_dir[i].ext = ".uvl" /\ out_n(source_dir[i]) = o.name) =>
            \E t \in Samples(extract_features_uvl(source_dir[i].file)) :
                IsCleanPlusThree(o.file, source_dir[i].file, t)

\* C16 (as stated): a second run of the injector on the same clean models
\* writes the same injected files and the same oracle rows as the first.
C16_InjectionDeterministic ==
    ipc = "done2" =>
        (output_dir = first_run.output_dir /\ oracle_key = first_run.oracle_key)

EndsWith(s, tail) == Len(s) >= Len(tail) /\ SubSeq(s, Len(s) - Len(tail) + 1, Len(s)) = tail

\* the triples whose three constraints stand in the text, one after the other
WrittenTriples(text, targets) ==
    { t \in Samples(targets) :
        \E k \in 1..(Len(text.lines) - 2) :
            /\ EndsWith(text.lines[k].toks, <<ROOT, "=>", "!", t[1]>>)
            /\ text.lines[k + 1].toks = <<ROOT, "=>", t[2]>>
            /\ text.lines[k + 2].toks = <<t[3], "=>", ROOT>> }

OutputsOf(e) == { o \in output_dir : o.name = out_n(e) }
OracleRowsOf(e) == { j \in 1..Len(oracle_key) : oracle_key[j].Source_File = src_n(e) }

\* C17: a model with fewer than 3 candidate features gets no injected file
\* and no oracle row, and its reason is reported; every other model of the
\* batch is injected and has exactly one oracle row, with its source file, its
\* injected file and the d, f, r that were written.
C17_InfeasibleSkipped ==
    ipc \in {"done1", "done2"} =>
        \A i \in { j \in 1..Len(source_dir) : source_dir[j].ext = ".uvl" } :
            LET e == source_dir[i] IN
            IF Cardinality(extract_features_uvl(e.file)) < 3
            THEN /\ OutputsOf(e) = {}
                 /\ OracleRowsOf(e) = {}
                 /\ \E n \in 1..Len(status_log) :
                        status_log[n] = [file |-> src_n(e), status |-> NotEnough]
            ELSE /\ Cardinality(OutputsOf(e)) = 1
                 /\ Cardinality(OracleRowsOf(e)) = 1
                 /\ \A j \in OracleRowsOf(e) : \A o \in OutputsOf(e) :
                        /\ oracle_key[j].File_Name = o.name
                        /\ << oracle_key[j].DF1_DeadFeature, oracle_key[j].FO_FalseOptional,
                              oracle_key[j].RE_Redundancy >>
                              \in WrittenTriples(o.file, extract_features_uvl(e.file))

\* a finished run whose first model was infeasible and whose second model
\* was injected
C17_Witness ==
    /\ ipc = "done1" /\ Len(source_dir) >= 2
    /\ source_dir[1].file = CleanD /\ source_dir[2].file # CleanD
    /\ OutputsOf(source_dir[2]) # {} /\ Len(oracle_key) = 1

-----------------------------------------------------------------------------
(* Claims about derive_model_key (SpecKeys)                                 *)

\* the stem is made of letters, digits and underscores
IsPlainStem == \A i \in 1..Len(stem) : stem[i] # "-"

\* C18 (as stated): for every stem S of letters, digits and underscores,
\* derive_model_key gives the same key to S.kr.pl, S_injected.kr.pl and
\* SCIENTIFIC_V5_S.kr.pl, and build_pairs_from_kr puts the clean file and
\* the injected file in one pair row.
C18_PipelineNamesPair ==
    (kpc = "paired" /\ IsPlainStem) =>
        /\ model_key[1] = model_key[2]
        /\ model_key[1] = model_key[3]
        /\ key_pairs = { [ModelKey |-> model_key[1], CleanFile |-> FileName("bare", stem),
                          InjectedFile |-> FileName("injected_suffix", stem)] }

\* C19 (as stated): M_clean.kr.pl, M_injected.kr.pl, DEFECTIVE_M.kr.pl and
\* M.kr.pl all reduce to the same key.
C19_LabelTokensRemoved ==
    (kpc = "paired" /\ IsPlainStem) =>
        /\ model_key[4] = model_key[1]
        /\ model_key[2] = model_key[1]
        /\ model_key[5] = model_key[1]


-----------------------------------------------------------------------------
(* Branch repetition in the input of build_uvl_from_structure (SpecBuild)   *)

BranchCodes == {"b1", "b2", "b3"}

InsertAt(rows, p, r) == SubSeq(rows, 1, p) \o <<r>> \o SubSeq(rows, p + 1, Len(rows))

\* the lines written for the categories: after "AuditScope {abstract}" and
\* its "or", up to the "optional" of InternalAuditSystem
AuditScopeLine(lines) ==
    CHOOSE i \in 1..Len(lines) : lines[i] = emit_feature("AuditScope", 3, TRUE)
ScopeEndLine(lines) ==
    CHOOSE i \in 1..Len(lines) : i > AuditScopeLine(lines) /\ lines[i] = emit_keyword(2, "optional")
AuditScopeBlock(lines) == SubSeq(lines, AuditScopeLine(lines) + 2, ScopeEndLine(lines) - 1)

\* the names written under "AuditedEntity {abstract}" (none without that line)
AuditedEntityBranches(lines) ==
    IF \E i \in 1..Len(lines) : lines[i] = emit_feature("AuditedEntity", 3, TRUE)
    THEN LET a == CHOOSE i \in 1..Len(lines) : lines[i] = emit_feature("AuditedEntity", 3, TRUE)
             block == SubSeq(lines, a + 2, AuditScopeLine(lines) - 1)
         IN  [i \in 1..Len(block) |-> block[i].toks[1]]
    ELSE <<>>

\* how many times each line occurs
LineBag(lines) ==
    [l \in Range(lines) |-> Cardinality({ i \in 1..Len(lines) : lines[i] = l })]

\* (declared name, name of the declaration it is nested in) for the lines of a block
BlockParents(lines) ==
    LET decls == { i \in 1..Len(lines) : ~IsKeywordLine(lines[i]) }
        above(i) == { j \in decls : j < i /\ lines[j].indent < lines[i].indent }
    IN  { <<lines[i].toks[1], IF above(i) = {} THEN "AuditScope" ELSE lines[Max(above(i))].toks[1]>> :
            i \in decls }

RawBranches(rows) == Column(rows, "BRANCH_FEATURE_CODE") \ {NA}

\* a row of the sheet again, with another branch code
BranchRepeat(r, b) == [r EXCEPT !.BRANCH_FEATURE_CODE = b]

-----------------------------------------------------------------------------
(* Skips, domain groups and constraints of build_uvl_from_structure         *)
(* (SpecBuild)                                                              *)

\* every name the rows of the sheet hold, with the fixed names of the builder
SheetNames ==
    UNION { Column(input_sheet, c) :
              c \in {"CATEGORY_CODE", "ITEM_FEATURE_NAME", "ANSWER_FEATURE_NAME",
                     "BRANCH_FEATURE_CODE", "AUDIT_TYPE_CODE", "AUDIT_PLAN_CODE"} } \ {NA}
KnownNames == SheetNames \cup Range(branch_cap_flags) \cup CONTAINER_FEATURES \cup WrittenFeatures

\* a scope rule whose flag or target is no name of the model at all
RuleUnknown(r) == r.TARGET_CODE \notin KnownNames \/ r.CAPABILITY_FLAG \notin KnownNames

CategoryRows(cat) == SelectSeq(input_sheet, LAMBDA r : r.CATEGORY_CODE = cat)
CategoryWithoutItem(cat) == \A i \in 1..Len(CategoryRows(cat)) : ~IsCoreRow(CategoryRows(cat)[i])
ItemWithoutAnswer(cat, ikey) ==
    /\ \E i \in 1..Len(CategoryRows(cat)) :
          IsCoreRow(CategoryRows(cat)[i]) /\ CategoryRows(cat)[i].ITEM_KEY = ikey
    /\ \A i \in 1..Len(CategoryRows(cat)) :
          CategoryRows(cat)[i].ITEM_KEY = ikey => CategoryRows(cat)[i].ANSWER_FEATURE_NAME = NA

\* the kinds of report entry of the category loop
CategoryLoopKinds ==
    {"SKIP_CATEGORY_NO_VALID_ITEMS", "SKIP_ITEM_MISSING_KEY_OR_FEATURE",
     "SKIP_ITEM_NO_VALID_ANSWERS", "WARN_ITEM_NO_VALID_ANSWERS_BUILT_ITEM_ONLY",
     "SKIP_ANSWER_MISSING_FEATURE"}

\* C21 (as stated): a build that does not raise writes its text, and every
\* dropped element has an entry in the report: a category without an item
\* that has key and name, an item without answer (answers are required), and
\* a scope rule whose flag or target is unknown.
C21_SkipsRecorded ==
    bpc \in {"written", "transformed"} =>
        /\ uvl_file # <<>>
        /\ \A cat \in Column(input_sheet, "CATEGORY_CODE") \ {NA} :
             /\ CategoryWithoutItem(cat) => <<"SKIP_CATEGORY_NO_VALID_ITEMS", cat, NA>> \in report
             /\ \A ikey \in Column(input_sheet, "ITEM_KEY") \ {NA} :
                  ItemWithoutAnswer(cat, ikey) => <<"SKIP_ITEM_NO_VALID_ANSWERS", cat, ikey>> \in report
        /\ \A i \in 1..Len(scope_rules) :
             RuleUnknown(scope_rules[i]) => \E e \in report : e[1] \notin CategoryLoopKinds

\* the part of C21 that holds: the text is written and the drops of the
\* category loop are in the report
C21_CategoryLoopRecorded ==
    bpc \in {"written", "transformed"} =>
        /\ uvl_file # <<>>
        /\ \A cat \in Column(input_sheet, "CATEGORY_CODE") \ {NA} :
             /\ CategoryWithoutItem(cat) => <<"SKIP_CATEGORY_NO_VALID_ITEMS", cat, NA>> \in report
             /\ \A ikey \in Column(input_sheet, "ITEM_KEY") \ {NA} :
                  ItemWithoutAnswer(cat, ikey) => <<"SKIP_ITEM_NO_VALID_ANSWERS", cat, ikey>> \in report

-----------------------------------------------------------------------------
(* Root resolution of the analyzer (SpecRoot)                               *)

\* the features that are a parent in some group and a child in none
RootCandidates(m) ==
    { g.parent : g \in m.groups } \ UNION { g.children : g \in m.groups }

\* C22 (as stated): a model that holds InternalAuditSystem is analysed with
\* it as root; a model that does not is analysed with the inferred root (a
\* feature that is a parent somewhere and never a child), so its result is
\* the result of the analysis from that root and not an empty one.
C22_RootResolution ==
    apc = "analyzed" =>
        IF ROOT_FEATURE \in kr.features
        THEN analysis = analyze_kr_for_defects(kr, ROOT_FEATURE)
        ELSE \E root \in RootCandidates(kr) : analysis = analyze_kr_for_defects(kr, root)

-----------------------------------------------------------------------------
(* The build run twice (SpecRebuild)                                        *)

-----------------------------------------------------------------------------
(* Capability and scope constraints of the written text (SpecBuild)         *)

\* the branch codes whose row of the profile has the flag column at 1
ProfileOn(flag_col) == { r.BRANCH_FEATURE_CODE : r \in { q \in branch_profile : q[flag_col] = 1 } }

\* the written constraints that define a flag: flag <=> ( ... ) or !flag
FlagDefinitions(flag) ==
    { i \in 1..Len(WrittenConstraints) :
        \/ WrittenConstraints[i] = <<"!", flag>>
        \/ /\ Len(WrittenConstraints[i]) >= 2
           /\ WrittenConstraints[i][1] = flag
           /\ WrittenConstraints[i][2] = "<=>" }

NamesFrom(toks, k) == { toks[j] : j \in { h \in k..Len(toks) : IsName(toks[h]) } }

\* C24 (as stated): the written text holds exactly one defining constraint
\* for each capability flag: flag <=> (b1 | ... | bn) over exactly the branch
\* codes whose profile has the flag at 1, or !flag when there is none.
C24_CapabilityConstraints ==
    bpc \in {"written", "transformed"} =>
        \A k \in 1..3 :
            /\ Cardinality(FlagDefinitions(branch_cap_flags[k])) = 1
            /\ \A i \in FlagDefinitions(branch_cap_flags[k]) :
                 IF ProfileOn(FlagColumns[k]) = {}
                 THEN WrittenConstraints[i] = <<"!", branch_cap_flags[k]>>
                 ELSE /\ WrittenConstraints[i][1] = branch_cap_flags[k]
                      /\ WrittenConstraints[i][2] = "<=>"
                      /\ NamesFrom(WrittenConstraints[i], 3) = ProfileOn(FlagColumns[k])

\* the part of C24 that holds: a flag has at most one defining constraint,
\* of the stated form, and it has one when every branch code of the profile
\* with the flag at 1 is a branch code of the rows
C24_WhenBranchesKnown ==
    bpc \in {"written", "transformed"} =>
        \A k \in 1..3 :
            /\ Cardinality(FlagDefinitions(branch_cap_flags[k])) <= 1
            /\ ProfileOn(FlagColumns[k]) \subseteq RawBranches(input_sheet)
                 => Cardinality(FlagDefinitions(branch_cap_flags[k])) = 1
            /\ \A i \in FlagDefinitions(branch_cap_flags[k]) :
                 IF ProfileOn(FlagColumns[k]) = {}
                 THEN WrittenConstraints[i] = <<"!", branch_cap_flags[k]>>
                 ELSE /\ WrittenConstraints[i][1] = branch_cap_flags[k]
                      /\ WrittenConstraints[i][2] = "<=>"
                      /\ NamesFrom(WrittenConstraints[i], 3) = ProfileOn(FlagColumns[k])

\* the written implications between a target and a flag
RuleImps(target, flag) ==
    { WrittenImps[i] : i \in { j \in 1..Len(WrittenImps) :
        {parse_literal(WrittenImps[j].lhs).feat, parse_literal(WrittenImps[j].rhs).feat}
            = {target, flag} } }

SatisfiesAll(imps, S) == \A c \in imps : LitHolds(c.lhs, S) => LitHolds(c.rhs, S)

IsBindingRule(r) ==
    /\ r.ACTION_CODE \in {"require", "forbid"}
    /\ r.TARGET_CODE \in WrittenFeatures
    /\ r.CAPABILITY_FLAG \in WrittenFeatures

\* C25 (as stated): for every scope rule (require or forbid) whose flag and
\* target are features of the written text, every assignment that satisfies
\* the constraints written for it selects the target if and only if it
\* selects the flag.
C25_ScopeRulesTwoWay ==
    bpc \in {"written", "transformed"} =>
        \A i \in 1..Len(scope_rules) :
            IsBindingRule(scope_rules[i]) =>
                \A S \in SUBSET {scope_rules[i].TARGET_CODE, scope_rules[i].CAPABILITY_FLAG} :
                    SatisfiesAll(RuleImps(scope_rules[i].TARGET_CODE, scope_rules[i].CAPABILITY_FLAG), S)
                        => (scope_rules[i].TARGET_CODE \in S <=> scope_rules[i].CAPABILITY_FLAG \in S)

\* what the written constraints of such a rule do bind: the target selects
\* the flag
C25_TargetSelectsFlag ==
    bpc \in {"written", "transformed"} =>
        \A i \in 1..Len(scope_rules) :
            IsBindingRule(scope_rules[i]) =>
                /\ RuleImps(scope_rules[i].TARGET_CODE, scope_rules[i].CAPABILITY_FLAG) # {}
                /\ \A S \in SUBSET {scope_rules[i].TARGET_CODE, scope_rules[i].CAPABILITY_FLAG} :
                     SatisfiesAll(RuleImps(scope_rules[i].TARGET_CODE, scope_rules[i].CAPABILITY_FLAG), S)
                        => (scope_rules[i].TARGET_CODE \in S => scope_rules[i].CAPABILITY_FLAG \in S)

-----------------------------------------------------------------------------
(* Domain groups of the written text (SpecBuild)                            *)

WrittenChildren(parent) == { p[1] : p \in { q \in WrittenParents : q[2] = parent } }
RawCodes(col) == Column(input_sheet, col) \ {NA}

\* C26 (as stated): AuditType is written exactly when some row of the sheet
\* holds an audit-type code, and then lists every distinct audit-type code of
\* the rows; AuditPlan lists every distinct audit-plan code of the rows; rows
\* that repeat the four content columns of an earlier row count as well.
C26_DomainGroupsComplete ==
    bpc \in {"written", "transformed"} =>
        /\ "AuditType" \in WrittenFeatures <=> RawCodes("AUDIT_TYPE_CODE") # {}
        /\ WrittenChildren("AuditType") = RawCodes("AUDIT_TYPE_CODE")
        /\ WrittenChildren("AuditPlan") = RawCodes("AUDIT_PLAN_CODE")

\* what holds: the groups list the codes of the rows kept by drop_duplicates
\* on the four content columns
C26_CodesOfKeptRows ==
    bpc \in {"written", "transformed"} =>
        LET kept == drop_duplicates_content(input_sheet)
        IN  /\ "AuditType" \in WrittenFeatures <=> Column(kept, "AUDIT_TYPE_CODE") \ {NA} # {}
            /\ WrittenChildren("AuditType") = Column(kept, "AUDIT_TYPE_CODE") \ {NA}
            /\ WrittenChildren("AuditPlan") = Column(kept, "AUDIT_PLAN_CODE") \ {NA}

-----------------------------------------------------------------------------
(* Parent and group recovery of parse_uvl (SpecFile)                        *)

IsFeatureLine(i) == ~IsKeywordLine(lines_read[i])
FeatureLineNumbers == { i \in 1..Len(lines_read) : IsFeatureLine(i) }

\* the feature lines before line i with a strictly smaller indent
SmallerBefore(i) ==
    { j \in FeatureLineNumbers : j < i /\ lines_read[j].indent < lines_read[i].indent }
HasParentLine(i) == SmallerBefore(i) # {}
ParentLine(i) == Max(SmallerBefore(i))

StackIncreasing == \A i \in 1..(Len(stack) - 1) : stack[i].indent < stack[i + 1].indent

\* the feature of the line just read has the nearest smaller-indent feature
\* line before it as parent; the first feature line has none
ParentOfLastLine ==
    (lines_read # <<>> /\ ppc = "reading" /\ IsFeatureLine(Len(lines_read))) =>
        LET i == Len(lines_read)
            f == lines_read[i].toks[1]
        IN  /\ HasParentLine(i) => features[f].parent = lines_read[ParentLine(i)].toks[1]
            /\ FeatureLineNumbers = {i} => features[f].parent = NoParent

\* a line of the child under a line of the parent, with a keyword line of the
\* group's kind between the two
GroupedByEnclosingKeyword(g, c) ==
    \E i \in FeatureLineNumbers :
        /\ lines_read[i].toks[1] = c
        /\ HasParentLine(i)
        /\ lines_read[ParentLine(i)].toks[1] = g.parent
        /\ \E k \in (ParentLine(i) + 1)..(i - 1) :
              /\ IsKeywordLine(lines_read[k])
              /\ lines_read[k].toks[1] = g.kind
              /\ lines_read[k].indent < lines_read[i].indent

\* C27 (as stated): at every step of parse_uvl the indents of the stack
\* increase strictly from bottom to top; the parent of a feature is the
\* nearest preceding feature line with a strictly smaller indent, and the
\* first feature line has no parent; and a feature is in a group only by a
\* keyword line that lies between its parent's line and its own line.
C27_ParentAndGroupRecovery ==
    /\ StackIncreasing
    /\ ParentOfLastLine
    /\ \A g \in groups : \A c \in g.children : GroupedByEnclosingKeyword(g, c)

\* the part of C27 that holds: the stack and the parents
C27_StackAndParents == StackIncreasing /\ ParentOfLastLine

-----------------------------------------------------------------------------
(* The clean and the injected model compared (SpecEnd)                      *)

InjectedImps(t) ==
    { [lhs |-> Pos(ROOT), rhs |-> Neg(t[1])],
      [lhs |-> Pos(ROOT), rhs |-> Pos(t[2])],
      [lhs |-> Pos(t[3]), rhs |-> Pos(ROOT)] }

\* C28 (as stated): for a model written by the builder and the model the
\* injector derives from it, the injected model is transformed, its feature,
\* abstract, parent and group facts are those of the clean model, no
\* implication is removed, the new implications are exactly the three
\* injected ones, and the pair is not classified MISSING_INJECTION.
C28_EndToEndDiff ==
    /\ epc \in {"both_transformed", "verified"} =>
         /\ injected_kr # NoFile
         /\ injected_kr.feature = kr_file.feature
         /\ injected_kr.abstract = kr_file.abstract
         /\ injected_kr.p = kr_file.p
         /\ injected_kr.group = kr_file.group
         /\ Range(kr_file.imp) \ Range(injected_kr.imp) = {}
         /\ Range(injected_kr.imp) \ Range(kr_file.imp) = InjectedImps(injected_targets)
    /\ epc = "verified" =>
         /\ end_row.RemovedImp = {}
         /\ end_row.NewImp = InjectedImps(injected_targets)
         /\ end_row.Status # "MISSING_INJECTION"

\* the written text has a line after its "constraints" line
HasConstraintLine == uvl_file[Len(uvl_file)].toks # <<"constraints">>

\* what holds: the statement of C28 for the models whose written text has
\* at least one constraint line
C28_WhenConstraintsWritten ==
    epc \in {"both_transformed", "verified"} /\ HasConstraintLine => C28_EndToEndDiff

-----------------------------------------------------------------------------
(* Soundness of the analyzer (SpecAnalyzer)                                 *)

\* C29: for a model that has a valid configuration, every feature the
\* analyzer reports dead is selected in no valid configuration, and every
\* feature it reports false-optional is selected in every valid
\* configuration (valid: the root is selected, a selected child has its
\* parent selected, the Mandatory, Alternative and Or groups and the
\* implications hold).
C29_AnalyzerSound ==
    (apc = "analyzed" /\ ~IsVoid(kr, ROOT_FEATURE)) =>
        /\ \A f \in analysis.dead_features : IsDead(kr, ROOT_FEATURE, f)
        /\ \A f \in analysis.false_optional : IsCore(kr, ROOT_FEATURE, f)

\* an analysed model with a valid configuration for which a dead feature and
\* a false-optional feature are reported
C29_Witness ==
    /\ apc = "analyzed"
    /\ ~IsVoid(kr, ROOT_FEATURE)
    /\ analysis.dead_features # {}
    /\ analysis.false_optional # {}

-----------------------------------------------------------------------------
(* The targets of the injector (SpecInject)                                 *)

\* C30 (as stated): the root feature is never one of the three targets of an
\* injection, and no injected file holds root => !root or root => root.
C30_RootNeverTarget ==
    /\ \A j \in 1..Len(tracking_list) :
          ROOT \notin { tracking_list[j].DF1_DeadFeature, tracking_list[j].FO_FalseOptional,
                        tracking_list[j].RE_Redundancy }
    /\ \A o \in output_dir : \A k \in 1..Len(o.file.lines) :
          /\ ~EndsWith(o.file.lines[k].toks, <<ROOT, "=>", "!", ROOT>>)
          /\ ~EndsWith(o.file.lines[k].toks, <<ROOT, "=>", ROOT>>)
=============================================================================
